---- MODULE Spec2Model ----
(***************************************************************************)
(* Model of the ClickHouse schema migration steps of akvorado              *)
(* (orchestrator/clickhouse/migrationsteps.go).                            *)
(*                                                                         *)
(* The database is a function from object names to object descriptions    *)
(* (tables, materialized views, dictionaries).  Every migration step is a  *)
(* CheckQuery, evaluated on the database, and a Do, a sequence of          *)
(* database calls executed one at a time.  A run walks the ordered step    *)
(* list; a call may fail, which aborts the run.                            *)
(***************************************************************************)
EXTENDS Integers, Sequences, FiniteSets, TLC

VARIABLES
    db,        \* object name -> object description (the live database)
    cfg,       \* configuration of the current (or last) run
    status,    \* "idle", "running", "done", "failed"
    pc,        \* position in the ordered step list (1-based), 0 outside a run
    stmt,      \* 0: at the step's CheckQuery; i > 0: about to issue call i of Do
    sk,        \* sorting key read by appendToSortingKey inside the current Do
    cause,     \* why the last run failed: "none", "fault", "stmt"
    doCalled,  \* positions whose Do has been invoked in the current run
    k0,        \* first position whose CheckQuery was falsy when the run began
    cold,      \* the run began on an empty database
    stable,    \* the run began in the state left by a successful run, same config
    interrupted, \* some run has stopped inside a Do, after a statement of it
    ttlIn,     \* input of the partition interval computation (seconds)
    mpIn,      \* input of the partition interval computation (MaxPartitions)
    partOut,   \* result of the partition interval computation, -1 before it
    asPath,    \* DstASPath of a row delivered by the raw table
    asOut,     \* <<Dst1stAS, Dst2ndAS, Dst3rdAS>> the raw consumer view writes
               \* for that row, <<>> before it does
    removeIn,  \* argument of a call of partialSchema (a set of names)
    schemaOut, \* the lines it returns, <<>> before the call
    afterIn,   \* arguments of a call of addColumnsAfter: the anchor column
    columnsIn, \* and the column specs
    clausesOut,\* the clauses it returns, <<>> before the call
    bytesIn,   \* Bytes and Packets of a row of a flows table
    packetsIn,
    bucketOut, \* its PacketSizeBucket, "" before it is read
    errorIn,   \* _error of a message read from the raw table
    forwarded, \* what the raw consumer view did with it: "no", "yes",
               \* "" before the view saw it
    recorded   \* what the raw errors view did with it, likewise

vars == <<db, cfg, status, pc, stmt, sk, cause, doCalled, k0, cold, stable,
          interrupted,
          ttlIn, mpIn, partOut, asPath, asOut, removeIn, schemaOut,
          afterIn, columnsIn, clausesOut, bytesIn, packetsIn, bucketOut,
          errorIn, forwarded, recorded>>

runVars == <<db, cfg, status, pc, stmt, sk, cause, doCalled, k0, cold, stable,
            interrupted>>
partVars == <<ttlIn, mpIn, partOut>>
asVars == <<asPath, asOut>>
schemaVars == <<removeIn, schemaOut>>
columnVars == <<afterIn, columnsIn, clausesOut>>
bucketVars == <<bytesIn, packetsIn, bucketOut>>
messageVars == <<errorIn, forwarded, recorded>>

\* The variables of the computations modelled on their own.
fnVars == <<partVars, asVars, schemaVars, columnVars, bucketVars, messageVars>>

----------------------------------------------------------------------------
(* Sequence helpers *)

Range(s) == {s[i] : i \in 1..Len(s)}

IndexOf(s, x) == CHOOSE i \in 1..Len(s) : s[i] = x

IsPrefix(s, t) == Len(s) <= Len(t) /\ SubSeq(t, 1, Len(s)) = s

Without(s, X) == SelectSeq(s, LAMBDA x : x \notin X)

InsertAfter(s, after, x) ==
    LET i == IndexOf(s, after)
    IN  SubSeq(s, 1, i) \o <<x>> \o SubSeq(s, i + 1, Len(s))

----------------------------------------------------------------------------
(* Schema catalog *)

\* The column names of flowsSchema, in order (one per line of the constant).
flowsSchema ==
    << "TimeReceived", "SamplingRate", "ExporterAddress", "ExporterName",
       "ExporterGroup", "ExporterRole", "ExporterSite", "ExporterRegion",
       "ExporterTenant", "SrcAddr", "DstAddr", "SrcNetMask", "DstNetMask",
       "SrcAS", "DstAS", "SrcNetName", "DstNetName", "SrcNetRole",
       "DstNetRole", "SrcNetSite", "DstNetSite", "SrcNetRegion",
       "DstNetRegion", "SrcNetTenant", "DstNetTenant", "SrcCountry",
       "DstCountry", "DstASPath", "Dst1stAS", "Dst2ndAS", "Dst3rdAS",
       "DstCommunities", "DstLargeCommunities", "InIfName", "OutIfName",
       "InIfDescription", "OutIfDescription", "InIfSpeed", "OutIfSpeed",
       "InIfConnectivity", "OutIfConnectivity", "InIfProvider",
       "OutIfProvider", "InIfBoundary", "OutIfBoundary", "EType", "Proto",
       "SrcPort", "DstPort", "Bytes", "Packets", "ForwardingStatus" >>

\* The characters of a column name, as a sequence of chunks cut so that one
\* name of the schema is a prefix of another exactly when its chunks are:
\* "DstAS" is a prefix of "DstASPath", and no other name of flowsSchema is a
\* prefix of another.  A text is the sequence of the chunks of its words and
\* of the spaces between them.
Chars(name) ==
    CASE name = "DstASPath" -> <<"DstAS", "Path">>
      [] OTHER -> <<name>>

\* strings.Split(flowsSchema, "\n"): the constant starts and ends with a
\* newline, and every line in between is a space, the column name, a space
\* and the type.
flowsSchemaLines ==
    <<<<>>>>
    \o [i \in 1..Len(flowsSchema) |->
           <<" ">> \o Chars(flowsSchema[i]) \o <<" ", "<type>">>]
    \o <<<<>>>>

\* strings.TrimSpace
TrimSpace(l) ==
    LET solid == {i \in 1..Len(l) : l[i] # " "}
    IN  IF solid = {} THEN <<>>
        ELSE SubSeq(l, CHOOSE i \in solid : \A j \in solid : i <= j,
                       CHOOSE i \in solid : \A j \in solid : i >= j)

\* strings.HasPrefix
HasPrefix(l, prefix) == IsPrefix(prefix, l)

\* Variant: the prefix looked for is the name alone.
RemovePrefixNoSpace(p) == Chars(p)

\* fmt.Sprintf("%s ", p)
RemovePrefix(p) == Chars(p) \o <<" ">>

\* partialSchema, before strings.Join: the lines kept.
partialSchemaLines(remove) ==
    SelectSeq(flowsSchemaLines,
        LAMBDA l : ~\E p \in remove : HasPrefix(TrimSpace(l), RemovePrefix(p)))

\* The first space-delimited word of a line, once trimmed.
FirstToken(l) ==
    LET t == TrimSpace(l)
        spaces == {i \in 1..Len(t) : t[i] = " "}
    IN  IF spaces = {} THEN t
        ELSE SubSeq(t, 1, (CHOOSE i \in spaces : \A j \in spaces : i <= j) - 1)

\* The column names the database reads from the lines of a column list.
ColumnsOf(lines) ==
    LET declared == SelectSeq(lines, LAMBDA l : l # <<>>)
    IN  [i \in 1..Len(declared) |->
            CHOOSE n \in Range(flowsSchema) : Chars(n) = FirstToken(declared[i])]

\* partialSchema, as the column list of the statement it is pasted into.
partialSchema(remove) == ColumnsOf(partialSchemaLines(remove))

\* Variant: a leading "IF NOT EXISTS " is not stripped.
columnSpecToNameNoStrip(spec) == spec[1]

\* A column spec is the sequence of its space-separated tokens.
\* columnSpecToName: strip a leading "IF NOT EXISTS ", take the first token.
columnSpecToName(spec) ==
    IF Len(spec) > 3 /\ SubSeq(spec, 1, 3) = <<"IF", "NOT", "EXISTS">>
    THEN spec[4]
    ELSE spec[1]

\* The identifier the SQL parser reads from a token (leading whitespace is
\* not part of an identifier).
SqlIdent(tok) ==
    CASE tok = "\nSrcNetPrefix" -> "SrcNetPrefix"
      [] tok = "\nDstNetPrefix" -> "DstNetPrefix"
      [] OTHER -> tok

\* addColumnsAfter: one ADD COLUMN clause per spec, each anchored after the
\* name of the previous one.
RECURSIVE addColumnsFrom(_, _)
addColumnsFrom(last, columns) ==
    IF columns = <<>> THEN <<>>
    ELSE <<[op |-> "ADD", spec |-> Head(columns), after |-> last]>>
         \o addColumnsFrom(columnSpecToName(Head(columns)), Tail(columns))

\* Variant: every clause anchored after the same column.
addColumnsAfterSameAnchor(after, columns) ==
    [i \in 1..Len(columns) |->
        [op |-> "ADD", spec |-> columns[i], after |-> after]]

addColumnsAfter(after, columns) == addColumnsFrom(after, columns)

\* addColumnsAndUpdateSortingKey, once the sorting key has been read:
\* the ADD COLUMN clauses and, for every table but flows, a MODIFY ORDER BY
\* of the key read followed by the new column names.
ColumnNames(columns) == [i \in 1..Len(columns) |-> columnSpecToName(columns[i])]

appendToSortingKey(sortingKey, columnNames) == sortingKey \o columnNames

\* Variant: the sorting key is never extended.
UpdatesSortingKeyNever(table) == FALSE

\* Variant: the sorting key of flows is extended too.
UpdatesSortingKeyAlways(table) == TRUE

UpdatesSortingKey(table) == table # "flows"

addColumnsAndUpdateSortingKey(table, after, columns, sortingKey) ==
    IF UpdatesSortingKey(table)
    THEN addColumnsAfter(after, columns)
         \o <<[op |-> "ORDER",
               key |-> appendToSortingKey(sortingKey, ColumnNames(columns))]>>
    ELSE addColumnsAfter(after, columns)

----------------------------------------------------------------------------
(* Durations.  A Go time.Duration is a 64-bit count of nanoseconds; it is *)
(* kept here as seconds, milliseconds, microseconds and nanoseconds       *)
(* (base-1000 digits below the second) so that its arithmetic stays in    *)
(* range.                                                                  *)

Duration(seconds) == [s |-> seconds, ms |-> 0, us |-> 0, ns |-> 0]

\* d / time.Duration(n): integer division of the nanosecond count.
DurationDiv(d, n) ==
    LET r1 == d.s % n
        r2 == (r1 * 1000 + d.ms) % n
        r3 == (r2 * 1000 + d.us) % n
    IN  [s  |-> d.s \div n,
         ms |-> (r1 * 1000 + d.ms) \div n,
         us |-> (r2 * 1000 + d.us) \div n,
         ns |-> (r3 * 1000 + d.ns) \div n]

\* Variant: the conversion rounds to the nearest second.
SecondsToUint64Round(d) ==
    IF d.ms >= 500 THEN d.s + 1 ELSE d.s

\* uint64(d.Seconds()): Seconds() is the whole seconds plus the fraction of a
\* second as a float64 (exact for the durations of the model: the sum needs
\* fewer than 53 bits), and the conversion to uint64 drops the fraction.
SecondsToUint64(d) == d.s

partitionInterval(ttl, maxPartitions) ==
    SecondsToUint64(DurationDiv(Duration(ttl), maxPartitions))

\* fmt.Sprintf("flows_%s", resolution.Interval)
AggregateName(interval) ==
    CASE interval = 60 -> "flows_1m0s"
      [] interval = 3600 -> "flows_1h0m0s"

\* The table a per-resolution step works on.
TableName(resolution) ==
    IF resolution.Interval = 0 THEN "flows"
    ELSE AggregateName(resolution.Interval)

\* fmt.Sprintf("%s_consumer", tableName)
ViewName(tableName) ==
    CASE tableName = "flows_1m0s" -> "flows_1m0s_consumer"
      [] tableName = "flows_1h0m0s" -> "flows_1h0m0s_consumer"
      [] tableName = "flows_v_raw" -> "flows_v_raw_consumer"

\* fmt.Sprintf("flows_%d_raw", flow.CurrentSchemaVersion)
RawTableName == "flows_v_raw"
RawErrorsName == "flows_v_raw_errors"

Intervals == {60, 3600}

Objects ==
    {"flows", "exporters", "protocols", "asns", "networks",
     RawTableName, ViewName(RawTableName), RawErrorsName}
    \cup {AggregateName(i) : i \in Intervals}
    \cup {ViewName(AggregateName(i)) : i \in Intervals}

----------------------------------------------------------------------------
(* The database: objects and the effect of each kind of statement.        *)
(* A statement yields [ok, db]: ok is FALSE when the database rejects it,  *)
(* and then db is unchanged.                                               *)

\* kind: "none" (absent), "table", "view", "dict".
\* cols: columns in position order (system.columns); alias: the ALIAS ones;
\* key: sorting key; part: partition interval (seconds); ttl: seconds added
\* to TimeReceived by the TTL clause, 0 when the table has none;
\* engine: engine and its settings; src, dst: FROM and TO of a view;
\* sel: the shape of a view's SELECT, arg: its interval in seconds;
\* data: columns holding stored values of rows inserted earlier.
NoObject ==
    [kind |-> "none", cols |-> <<>>, alias |-> {}, key |-> <<>>, part |-> 0,
     ttl |-> 0, engine |-> "", src |-> "", dst |-> "", sel |-> "", arg |-> 0,
     data |-> {}]

Exists(d, name) == d[name].kind # "none"

Rejected(d) == [ok |-> FALSE, db |-> d]
Accepted(d) == [ok |-> TRUE, db |-> d]

\* DROP TABLE IF EXISTS name SYNC
DropTableIfExists(d, name) == Accepted([d EXCEPT ![name] = NoObject])

\* CREATE TABLE name (cols) ENGINE = engine PARTITION BY ... ORDER BY key
CreateTable(d, name, cols, key, part, engine) ==
    IF Exists(d, name) THEN Rejected(d)
    ELSE Accepted([d EXCEPT ![name] =
             [NoObject EXCEPT !.kind = "table", !.cols = cols, !.key = key,
                              !.part = part, !.engine = engine]])

\* The name the parser reads from the spec of an ADD COLUMN clause.
ClauseColumn(spec) == SqlIdent(columnSpecToName(spec))

\* Whether the spec of a column declares an ALIAS column.
IsAlias(spec) == Range(spec) \cap {"ALIAS", "ALIAS\nCASE"} # {}

\* One clause of an ALTER TABLE applied to the table description o; added is
\* the set of columns added so far by the same ALTER.
\* ADD COLUMN needs a new name and an existing anchor; DROP COLUMN needs an
\* existing column outside the sorting key; MODIFY ORDER BY may only append
\* columns added by the same ALTER to the sorting key.
ApplyClause(acc, m) ==
    LET o == acc.o
        present == Range(o.cols)
    IN  CASE ~acc.ok -> acc
          [] m.op = "ADD" ->
               LET name == ClauseColumn(m.spec)
                   after == SqlIdent(m.after)
               IN  IF name \in present \/ after \notin present
                   THEN [acc EXCEPT !.ok = FALSE]
                   ELSE [acc EXCEPT
                           !.o = [o EXCEPT
                                    !.cols = InsertAfter(o.cols, after, name),
                                    !.alias = IF IsAlias(m.spec)
                                              THEN o.alias \cup {name}
                                              ELSE o.alias],
                           !.added = acc.added \cup
                                     (IF IsAlias(m.spec) THEN {} ELSE {name})]
          [] m.op = "DROP" ->
               IF m.col \notin present \/ m.col \in Range(o.key)
               THEN [acc EXCEPT !.ok = FALSE]
               ELSE [acc EXCEPT
                       !.o = [o EXCEPT !.cols = Without(o.cols, {m.col}),
                                       !.alias = o.alias \ {m.col},
                                       !.data = o.data \ {m.col}]]
          [] m.op = "ORDER" ->
               IF /\ IsPrefix(o.key, m.key)
                  /\ \A i \in (Len(o.key) + 1)..Len(m.key) :
                        SqlIdent(m.key[i]) \in acc.added
               THEN [acc EXCEPT
                       !.o = [o EXCEPT
                                !.key = [i \in 1..Len(m.key) |-> SqlIdent(m.key[i])]]]
               ELSE [acc EXCEPT !.ok = FALSE]
          [] m.op = "TTL" ->
               [acc EXCEPT !.o = [o EXCEPT !.ttl = m.ttl]]

RECURSIVE ApplyClauses(_, _)
ApplyClauses(acc, mods) ==
    IF mods = <<>> THEN acc
    ELSE ApplyClauses(ApplyClause(acc, Head(mods)), Tail(mods))

\* ALTER TABLE name <modifications>: all clauses or none.
AlterTable(d, name, mods) ==
    IF d[name].kind # "table" THEN Rejected(d)
    ELSE LET r == ApplyClauses([ok |-> TRUE, o |-> d[name], added |-> {}], mods)
         IN  IF r.ok THEN Accepted([d EXCEPT ![name] = r.o]) ELSE Rejected(d)

\* The columns SELECT * yields from a table: ALIAS columns are left out.
SelectStar(o) == Without(o.cols, o.alias)

\* CREATE MATERIALIZED VIEW name [TO dst] AS SELECT cols FROM src; needs lists
\* the columns of src the SELECT names.
CreateView(d, name, src, dst, cols, needs, sel, arg) ==
    IF \/ Exists(d, name)
       \/ ~Exists(d, src)
       \/ (dst # "" /\ ~Exists(d, dst))
       \/ ~(needs \subseteq Range(d[src].cols))
    THEN Rejected(d)
    ELSE Accepted([d EXCEPT ![name] =
             [NoObject EXCEPT !.kind = "view", !.cols = cols, !.src = src,
                              !.dst = dst, !.sel = sel, !.arg = arg]])

\* CREATE OR REPLACE DICTIONARY name (cols) SOURCE(HTTP(URL url ...))
CreateOrReplaceDictionary(d, name, cols, url) ==
    Accepted([d EXCEPT ![name] =
        [NoObject EXCEPT !.kind = "dict", !.cols = cols, !.src = url]])

\* groupBitXor(cityHash64(name, type, position)) over the columns of a
\* table: determined by the column list, which stands for it here.
Fingerprint(cols) == cols

\* queryTableHash: the object exists, its fingerprint is the expected one and
\* the extra predicate holds.
queryTableHash(d, name, hash, more) ==
    Exists(d, name) /\ Fingerprint(d[name].cols) = hash /\ more

----------------------------------------------------------------------------
(* The step library.  A migrationStep is [CheckQuery, Do]: CheckQuery is   *)
(* the query with its arguments, Do the database calls in the order the    *)
(* closure issues them.                                                    *)

LowCardinality(name) == <<name, "LowCardinality(String)">>

\* Columns left out of the consolidated tables (partialSchema call of
\* migrationsStepCreateFlowsTable).
AggregateRemoved ==
    {"SrcAddr", "DstAddr", "SrcNetMask", "DstNetMask", "SrcPort", "DstPort",
     "DstASPath", "DstCommunities", "DstLargeCommunities"}

\* The column list of a consolidated table: the partialSchema call of
\* migrationsStepCreateFlowsTable.
AggregateSchema == partialSchema(AggregateRemoved)

\* ORDER BY of the unconsolidated flows table.
FlowsSortingKey == <<"TimeReceived", "ExporterAddress", "InIfName", "OutIfName">>

\* PRIMARY KEY of a consolidated table.
AggregatePrimaryKey ==
    <<"TimeReceived", "ExporterAddress", "EType", "Proto", "InIfName",
      "SrcAS", "ForwardingStatus", "OutIfName", "DstAS", "SamplingRate">>

\* Variant: the countries come before the network names in ORDER BY.
AggregateSortingKeyCountryFirst ==
    AggregatePrimaryKey \o
    <<"SrcCountry", "DstCountry", "SrcNetName", "DstNetName", "SrcNetRole",
      "DstNetRole", "SrcNetSite", "DstNetSite", "SrcNetRegion", "DstNetRegion",
      "SrcNetTenant", "DstNetTenant", "Dst1stAS", "Dst2ndAS", "Dst3rdAS">>

\* ORDER BY of a consolidated table.
AggregateSortingKey ==
    AggregatePrimaryKey \o
    <<"SrcNetName", "DstNetName", "SrcNetRole", "DstNetRole", "SrcNetSite",
      "DstNetSite", "SrcNetRegion", "DstNetRegion", "SrcNetTenant",
      "DstNetTenant", "SrcCountry", "DstCountry", "Dst1stAS", "Dst2ndAS",
      "Dst3rdAS">>

\* Variant: DstCommunities is missing from the EXCEPT list.
ConsumerExceptShort ==
    {"SrcAddr", "DstAddr", "SrcNetMask", "DstNetMask", "SrcPort", "DstPort",
     "DstASPath", "DstLargeCommunities"}

\* EXCEPT list of the SELECT of flows_<interval>_consumer.
ConsumerExcept ==
    {"SrcAddr", "DstAddr", "SrcNetMask", "DstNetMask", "SrcPort", "DstPort",
     "DstASPath", "DstCommunities", "DstLargeCommunities"}

\* Variant: Dst3rdAS is not removed from the raw table.
RawRemovedKeepsDst3rdAS ==
    {"SrcNetName", "DstNetName", "SrcNetRole", "DstNetRole", "SrcNetSite",
     "DstNetSite", "SrcNetRegion", "DstNetRegion", "SrcNetTenant",
     "DstNetTenant", "Dst1stAS", "Dst2ndAS", "DstLargeCommunities"}

\* Columns left out of the raw table (partialSchema call of
\* migrationStepCreateRawFlowsTable).
RawRemoved ==
    {"SrcNetName", "DstNetName", "SrcNetRole", "DstNetRole", "SrcNetSite",
     "DstNetSite", "SrcNetRegion", "DstNetRegion", "SrcNetTenant",
     "DstNetTenant", "Dst1stAS", "Dst2ndAS", "Dst3rdAS", "DstLargeCommunities"}

\* DstLargeCommunities Nested(ASN, LocalData1, LocalData2)
largeCommunitiesColumns ==
    <<"DstLargeCommunities.ASN", "DstLargeCommunities.LocalData1",
      "DstLargeCommunities.LocalData2">>

RawColumns == partialSchema(RawRemoved) \o largeCommunitiesColumns

\* The columns the raw consumer view computes, in SELECT order.
RawConsumerComputed ==
    <<"SrcNetName", "DstNetName", "SrcNetRole", "DstNetRole", "SrcNetSite",
      "DstNetSite", "SrcNetRegion", "DstNetRegion", "SrcNetTenant",
      "DstNetTenant", "Dst1stAS", "Dst2ndAS", "Dst3rdAS", "DstLargeCommunities">>

ExportersColumns ==
    <<"TimeReceived", "ExporterAddress", "ExporterName", "ExporterGroup",
      "ExporterRole", "ExporterSite", "ExporterRegion", "ExporterTenant",
      "IfName", "IfDescription", "IfSpeed", "IfConnectivity", "IfProvider",
      "IfBoundary">>

\* Columns of flows the exporters view reads.
ExportersNeeds ==
    {"TimeReceived", "ExporterAddress", "ExporterName", "ExporterGroup",
     "ExporterRole", "ExporterSite", "ExporterRegion", "ExporterTenant",
     "InIfName", "OutIfName", "InIfDescription", "OutIfDescription",
     "InIfSpeed", "OutIfSpeed", "InIfConnectivity", "OutIfConnectivity",
     "InIfProvider", "OutIfProvider", "InIfBoundary", "OutIfBoundary"}

ProtocolsColumns == <<"proto", "name", "description">>
ASNsColumns == <<"asn", "name">>
NetworksColumns == <<"network", "name", "role", "site", "region", "tenant">>
RawErrorsColumns == <<"timestamp", "topic", "partition", "offset", "raw", "error">>

\* The fingerprints baked into the checks: each is the fingerprint of the
\* column list the step's Do produces on the canonical schema.
\* Variant: a fingerprint taken before Dst1stAS, Dst2ndAS and Dst3rdAS were
\* added to the schema.
hashFlowsConsumerStale ==
    Fingerprint(Without(partialSchema(ConsumerExcept),
                        {"Dst1stAS", "Dst2ndAS", "Dst3rdAS"}))

hashFlowsConsumer == Fingerprint(partialSchema(ConsumerExcept))
hashExporters == Fingerprint(ExportersColumns)
hashNetworks == Fingerprint(NetworksColumns)
hashRawFlows == Fingerprint(RawColumns)
hashRawFlowsConsumer ==
    Fingerprint(Without(RawColumns, Range(largeCommunitiesColumns))
                \o RawConsumerComputed)
hashRawFlowsErrors == Fingerprint(RawErrorsColumns)

NoMore == [f |-> "none"]

nullMigrationStep == [CheckQuery |-> [q |-> "one"], Do |-> <<>>]

migrationsStepCreateFlowsTable(resolution, c) ==
    IF resolution.Interval = 0
    THEN [CheckQuery |-> [q |-> "table", name |-> "flows"],
          Do |-> <<[c |-> "createTable", name |-> "flows",
                    cols |-> flowsSchema, key |-> FlowsSortingKey,
                    part |-> partitionInterval(resolution.TTL, c.mp),
                    engine |-> "MergeTree"]>>]
    ELSE [CheckQuery |-> [q |-> "table", name |-> TableName(resolution)],
          Do |-> <<[c |-> "drop", name |-> ViewName(TableName(resolution))],
                   [c |-> "createTable", name |-> TableName(resolution),
                    cols |-> AggregateSchema,
                    key |-> AggregateSortingKey,
                    part |-> partitionInterval(resolution.TTL, c.mp),
                    engine |-> "SummingMergeTree"]>>]

\* The shape shared by the steps that add columns with addColumnsAfter.
AddColumnsStep(table, marker, after, columns) ==
    [CheckQuery |-> [q |-> "column", name |-> table, column |-> marker],
     Do |-> <<[c |-> "alter", name |-> table,
               mods |-> addColumnsAfter(after, columns)]>>]

\* The shape shared by the steps that add columns with
\* addColumnsAndUpdateSortingKey: the sorting key is read first, for every
\* table but flows.
AddColumnsAndKeyStep(table, marker, after, columns) ==
    [CheckQuery |-> [q |-> "column", name |-> table, column |-> marker],
     Do |-> (IF UpdatesSortingKey(table)
             THEN <<[c |-> "sortingKey", name |-> table]>>
             ELSE <<>>)
            \o <<[c |-> "alterKey", name |-> table, after |-> after,
                  columns |-> columns]>>]

\* The boundaries of the packet size buckets.
boundaries ==
    <<64, 128, 256, 512, 768, 1024, 1280, 1501,
      2048, 3072, 4096, 8192, 10240, 16384, 32768, 65536>>

\* The arguments of multiIf built by the loop over the boundaries from
\* position i on, last being the previous boundary: a condition
\* "PacketSize < boundary" with its label '<last>-<boundary-1>' for each
\* boundary, then the label '<last>-Inf' of the else branch.
RECURSIVE conditionsFrom(_, _)
conditionsFrom(i, last) ==
    IF i > Len(boundaries)
    THEN <<[else |-> TRUE, less |-> 0, label |-> ToString(last) \o "-Inf"]>>
    ELSE <<[else |-> FALSE, less |-> boundaries[i],
            label |-> ToString(last) \o "-" \o ToString(boundaries[i] - 1)]>>
         \o conditionsFrom(i + 1, boundaries[i])

conditions == conditionsFrom(1, 0)

\* Variant of the condition: "PacketSize <= boundary".
PacketSizeAtMost(size, boundary) == size <= boundary

\* The condition "PacketSize < boundary".
PacketSizeLess(size, boundary) == size < boundary

\* multiIf: the label of the first condition that holds, the else label
\* when none does.
RECURSIVE multiIf(_, _)
multiIf(size, conds) ==
    IF Head(conds).else \/ PacketSizeLess(size, Head(conds).less)
    THEN Head(conds).label
    ELSE multiIf(size, Tail(conds))

\* The ALIAS columns PacketSize and PacketSizeBucket.
PacketSize(bytes, packets) == bytes \div packets
PacketSizeBucket(bytes, packets) == multiIf(PacketSize(bytes, packets), conditions)

migrationStepAddPacketSizeBucketColumn(resolution) ==
    AddColumnsStep(TableName(resolution), "PacketSizeBucket", "Packets",
        <<<<"PacketSize", "UInt64", "ALIAS", "intDiv(Bytes,", "Packets)">>,
          <<"PacketSizeBucket", "LowCardinality(String)", "ALIAS", "multiIf(...)">>>>)

migrationStepAddSrcNetNameDstNetNameColumns(resolution) ==
    AddColumnsAndKeyStep(TableName(resolution), "DstNetName", "DstAS",
        <<LowCardinality("SrcNetName"), LowCardinality("DstNetName")>>)

migrationStepAddSrcNetNameDstNetOthersColumns(resolution) ==
    AddColumnsAndKeyStep(TableName(resolution), "DstNetRole", "DstNetName",
        <<LowCardinality("SrcNetRole"), LowCardinality("DstNetRole"),
          LowCardinality("SrcNetSite"), LowCardinality("DstNetSite"),
          LowCardinality("SrcNetRegion"), LowCardinality("DstNetRegion"),
          LowCardinality("SrcNetTenant"), LowCardinality("DstNetTenant")>>)

\* Variant: the exporter columns are appended to the sorting key.
migrationStepAddExporterColumnsWithKey(resolution) ==
    AddColumnsAndKeyStep(TableName(resolution), "ExporterTenant", "ExporterGroup",
        <<LowCardinality("ExporterRole"), LowCardinality("ExporterSite"),
          LowCardinality("ExporterRegion"), LowCardinality("ExporterTenant")>>)

migrationStepAddExporterColumns(resolution) ==
    AddColumnsStep(TableName(resolution), "ExporterTenant", "ExporterGroup",
        <<LowCardinality("ExporterRole"), LowCardinality("ExporterSite"),
          LowCardinality("ExporterRegion"), LowCardinality("ExporterTenant")>>)

\* Variant: the step is built for flows too.
FixOrderByCountryNeverNull(resolution) == FALSE

\* migrationStepFixOrderByCountry returns nullMigrationStep for flows.
FixOrderByCountryIsNull(resolution) == resolution.Interval = 0

\* Variant: the columns are added back with addColumnsAfter, without the
\* sorting key.
migrationStepFixOrderByCountryKeepsKey(resolution) ==
    IF FixOrderByCountryIsNull(resolution)
    THEN nullMigrationStep
    ELSE [CheckQuery |-> [q |-> "sortingKeyHas", name |-> TableName(resolution),
                          column |-> "SrcCountry"],
          Do |-> <<[c |-> "alter", name |-> TableName(resolution),
                    mods |-> <<[op |-> "DROP", col |-> "SrcCountry"],
                               [op |-> "DROP", col |-> "DstCountry"]>>],
                   [c |-> "alter", name |-> TableName(resolution),
                    mods |-> addColumnsAfter("DstNetTenant",
                                <<<<"SrcCountry", "FixedString(2)">>,
                                  <<"DstCountry", "FixedString(2)">>>>)]>>]

migrationStepFixOrderByCountry(resolution) ==
    IF FixOrderByCountryIsNull(resolution)
    THEN nullMigrationStep
    ELSE [CheckQuery |-> [q |-> "sortingKeyHas", name |-> TableName(resolution),
                          column |-> "SrcCountry"],
          Do |-> <<[c |-> "alter", name |-> TableName(resolution),
                    mods |-> <<[op |-> "DROP", col |-> "SrcCountry"],
                               [op |-> "DROP", col |-> "DstCountry"]>>]>>
                 \o AddColumnsAndKeyStep(TableName(resolution), "SrcCountry",
                        "DstNetTenant",
                        <<<<"SrcCountry", "FixedString(2)">>,
                          <<"DstCountry", "FixedString(2)">>>>).Do]

migrationStepAddDstASPathColumns(resolution) ==
    IF TableName(resolution) = "flows"
    THEN AddColumnsAndKeyStep("flows", "Dst1stAS", "DstCountry",
            <<<<"DstASPath", "Array(UInt32)">>, <<"Dst1stAS", "UInt32">>,
              <<"Dst2ndAS", "UInt32">>, <<"Dst3rdAS", "UInt32">>>>)
    ELSE AddColumnsAndKeyStep(TableName(resolution), "Dst1stAS", "DstCountry",
            <<<<"Dst1stAS", "UInt32">>, <<"Dst2ndAS", "UInt32">>,
              <<"Dst3rdAS", "UInt32">>>>)

\* Variant: anchored after the column the next step adds.
migrationStepAddDstCommunitiesColumnAfterLarge ==
    AddColumnsAndKeyStep("flows", "DstCommunities", "DstLargeCommunities",
        <<<<"DstCommunities", "Array(UInt32)">>>>)

migrationStepAddDstCommunitiesColumn ==
    AddColumnsAndKeyStep("flows", "DstCommunities", "Dst3rdAS",
        <<<<"DstCommunities", "Array(UInt32)">>>>)

migrationStepAddDstLargeCommunitiesColumn ==
    AddColumnsAndKeyStep("flows", "DstLargeCommunities", "DstCommunities",
        <<<<"DstLargeCommunities", "Array(UInt128)">>>>)

migrationStepAddSrcNetMaskDstNetMaskColumns ==
    AddColumnsAndKeyStep("flows", "SrcNetMask", "DstAddr",
        <<<<"SrcNetMask", "UInt8">>, <<"DstNetMask", "UInt8">>>>)

\* The spec built by sql(prefix) starts with a newline.
migrationStepAddSrcNetPrefixDstNetPrefixColumn ==
    AddColumnsStep("flows", "SrcNetPrefix", "DstNetMask",
        <<<<"\nSrcNetPrefix", "String", "ALIAS\nCASE", "...">>,
          <<"\nDstNetPrefix", "String", "ALIAS\nCASE", "...">>>>)

\* Variant: the null step for every resolution.
migrationsStepCreateFlowsConsumerTableNull(resolution) == nullMigrationStep

migrationsStepCreateFlowsConsumerTable(resolution) ==
    IF resolution.Interval = 0
    THEN nullMigrationStep
    ELSE [CheckQuery |->
            [q |-> "hash", name |-> ViewName(TableName(resolution)),
             hash |-> hashFlowsConsumer,
             more |-> [f |-> "as_select", sel |-> "EXCEPT REPLACE",
                       arg |-> resolution.Interval]],
          Do |-> <<[c |-> "drop", name |-> ViewName(TableName(resolution))],
                   [c |-> "createViewStar",
                    name |-> ViewName(TableName(resolution)),
                    src |-> "flows", dst |-> TableName(resolution),
                    except |-> ConsumerExcept, extra |-> <<>>,
                    needs |-> {"TimeReceived"},
                    sel |-> "EXCEPT REPLACE", arg |-> resolution.Interval]>>]

\* Variant: tableName stays "flows" for every resolution.
migrationsStepSetTTLFlowsTableWrongTable(resolution) ==
    IF resolution.TTL = 0
    THEN [CheckQuery |-> [q |-> "one"], Do |-> <<>>]
    ELSE [CheckQuery |-> [q |-> "ttl", name |-> "flows",
                          ttl |-> resolution.TTL],
          Do |-> <<[c |-> "alter", name |-> "flows",
                    mods |-> <<[op |-> "TTL", ttl |-> resolution.TTL]>>]>>]

\* Variant: a TTL of 0 removes the TTL of the table.
migrationsStepSetTTLFlowsTableRemoves(resolution) ==
    [CheckQuery |-> [q |-> "ttl", name |-> TableName(resolution),
                     ttl |-> resolution.TTL],
     Do |-> <<[c |-> "alter", name |-> TableName(resolution),
               mods |-> <<[op |-> "TTL", ttl |-> resolution.TTL]>>]>>]

migrationsStepSetTTLFlowsTable(resolution) ==
    IF resolution.TTL = 0
    THEN [CheckQuery |-> [q |-> "one"], Do |-> <<>>]
    ELSE [CheckQuery |-> [q |-> "ttl", name |-> TableName(resolution),
                          ttl |-> SecondsToUint64(Duration(resolution.TTL))],
          Do |-> <<[c |-> "alter", name |-> TableName(resolution),
                    mods |-> <<[op |-> "TTL",
                                ttl |-> SecondsToUint64(Duration(resolution.TTL))]>>]>>]

migrationStepCreateExportersView ==
    [CheckQuery |-> [q |-> "hash", name |-> "exporters", hash |-> hashExporters,
                     more |-> NoMore],
     Do |-> <<[c |-> "drop", name |-> "exporters"],
              [c |-> "createView", name |-> "exporters", src |-> "flows",
               dst |-> "", cols |-> ExportersColumns, needs |-> ExportersNeeds,
               sel |-> "DISTINCT", arg |-> 0]>>]

DictionaryStep(name, cols, c) ==
    [CheckQuery |-> [q |-> "create_table_query", name |-> name, source |-> c.url],
     Do |-> <<[c |-> "dictionary", name |-> name, cols |-> cols,
               url |-> c.url]>>]

migrationStepCreateProtocolsDictionary(c) ==
    DictionaryStep("protocols", ProtocolsColumns, c)

migrationStepCreateASNsDictionary(c) ==
    DictionaryStep("asns", ASNsColumns, c)

migrationStepCreateNetworksDictionary(c) ==
    [CheckQuery |-> [q |-> "hash", name |-> "networks", hash |-> hashNetworks,
                     more |-> [f |-> "create_table_query", source |-> c.url]],
     Do |-> DictionaryStep("networks", NetworksColumns, c).Do]

\* The engine clause built from the Kafka configuration.
kafkaEngine(c) == c.kafka

\* Variant: the raw consumer view is dropped, the raw table is dropped, and
\* flows is dropped with them.
migrationStepCreateRawFlowsTableDropsFlows(c) ==
    [CheckQuery |-> [q |-> "hash", name |-> RawTableName, hash |-> hashRawFlows,
                     more |-> [f |-> "engine_full", engine |-> kafkaEngine(c)]],
     Do |-> <<[c |-> "drop", name |-> ViewName(RawTableName)],
              [c |-> "drop", name |-> "flows"],
              [c |-> "createTable", name |-> RawTableName, cols |-> RawColumns,
               key |-> <<>>, part |-> 0, engine |-> kafkaEngine(c)]>>]

migrationStepCreateRawFlowsTable(c) ==
    [CheckQuery |-> [q |-> "hash", name |-> RawTableName, hash |-> hashRawFlows,
                     more |-> [f |-> "engine_full", engine |-> kafkaEngine(c)]],
     Do |-> <<[c |-> "drop", name |-> ViewName(RawTableName)],
              [c |-> "drop", name |-> RawTableName],
              [c |-> "createTable", name |-> RawTableName, cols |-> RawColumns,
               key |-> <<>>, part |-> 0, engine |-> kafkaEngine(c)]>>]

migrationStepCreateRawFlowsConsumerView ==
    [CheckQuery |->
        [q |-> "hash", name |-> ViewName(RawTableName),
         hash |-> hashRawFlowsConsumer,
         more |-> [f |-> "as_select", sel |-> "WHERE length(_error) = 0",
                   arg |-> 0]],
     Do |-> <<[c |-> "drop", name |-> ViewName(RawTableName)],
              [c |-> "createViewStar", name |-> ViewName(RawTableName),
               src |-> RawTableName, dst |-> "flows",
               except |-> Range(largeCommunitiesColumns),
               extra |-> RawConsumerComputed,
               needs |-> {"DstASPath", "SrcAddr", "DstAddr"}
                         \cup Range(largeCommunitiesColumns),
               sel |-> "WHERE length(_error) = 0", arg |-> 0]>>]

\* Variant: the errors view takes every message.
migrationStepCreateRawFlowsErrorsViewAll ==
    [CheckQuery |-> [q |-> "hash", name |-> RawErrorsName,
                     hash |-> hashRawFlowsErrors, more |-> NoMore],
     Do |-> <<[c |-> "drop", name |-> RawErrorsName],
              [c |-> "createView", name |-> RawErrorsName, src |-> RawTableName,
               dst |-> "", cols |-> RawErrorsColumns, needs |-> {},
               sel |-> "WHERE length(_error) >= 0", arg |-> 0]>>]

migrationStepCreateRawFlowsErrorsView ==
    [CheckQuery |-> [q |-> "hash", name |-> RawErrorsName,
                     hash |-> hashRawFlowsErrors, more |-> NoMore],
     Do |-> <<[c |-> "drop", name |-> RawErrorsName],
              [c |-> "createView", name |-> RawErrorsName, src |-> RawTableName,
               dst |-> "", cols |-> RawErrorsColumns, needs |-> {},
               sel |-> "WHERE length(_error) > 0", arg |-> 0]>>]

----------------------------------------------------------------------------
(* The expressions of the raw consumer view that slice the AS path.       *)

\* Variant: every repeated element is removed, adjacent or not.
RECURSIVE arrayDistinct(_)
arrayDistinct(arr) ==
    IF arr = <<>> THEN <<>>
    ELSE LET front == arrayDistinct(SubSeq(arr, 1, Len(arr) - 1))
             last == arr[Len(arr)]
         IN  IF last \in Range(front) THEN front ELSE Append(front, last)

\* arrayCompact(arr): consecutive equal elements are collapsed into one.
RECURSIVE arrayCompact(_)
arrayCompact(arr) ==
    IF Len(arr) <= 1 THEN arr
    ELSE LET front == arrayCompact(SubSeq(arr, 1, Len(arr) - 1))
             last == arr[Len(arr)]
         IN  IF last = arr[Len(arr) - 1] THEN front ELSE Append(front, last)

\* arr[i] of an Array(UInt32): the default value 0 outside the array.
arrayElement(arr, i) == IF i \in 1..Len(arr) THEN arr[i] ELSE 0

\* WITH arrayCompact(DstASPath) AS c_DstASPath SELECT c_DstASPath[1] AS
\* Dst1stAS, c_DstASPath[2] AS Dst2ndAS, c_DstASPath[3] AS Dst3rdAS
SelectDstAS(DstASPath) ==
    LET c_DstASPath == arrayCompact(DstASPath)
    IN  <<arrayElement(c_DstASPath, 1), arrayElement(c_DstASPath, 2),
          arrayElement(c_DstASPath, 3)>>

----------------------------------------------------------------------------
(* The WHERE clauses of the two views on the raw table.  _error is the     *)
(* String the Kafka engine fills in stream mode, kept as its characters.   *)

length(string) == Len(string)

\* Whether the WHERE clause of a view selects a message with this _error.
Where(sel, error) ==
    CASE sel = "WHERE length(_error) = 0" -> length(error) = 0
      [] sel = "WHERE length(_error) > 0" -> length(error) > 0
      [] sel = "WHERE length(_error) >= 0" -> length(error) >= 0

----------------------------------------------------------------------------
(* Evaluation of a CheckQuery and of one database call of a Do.           *)

\* The extra predicate of a queryTableHash check.
EvalMore(d, name, more) ==
    CASE more.f = "none" -> TRUE
      [] more.f = "as_select" ->
            d[name].sel = more.sel /\ d[name].arg = more.arg
      [] more.f = "engine_full" -> d[name].engine = more.engine
      [] more.f = "create_table_query" -> d[name].src = more.source

\* Whether the CheckQuery returns a truthy row.
EvalCheck(d, q) ==
    CASE q.q = "one" -> TRUE
      [] q.q = "table" -> Exists(d, q.name)
      [] q.q = "column" -> q.column \in Range(d[q.name].cols)
      [] q.q = "sortingKeyHas" ->
            Exists(d, q.name) /\ q.column \in Range(d[q.name].key)
      [] q.q = "ttl" -> Exists(d, q.name) /\ d[q.name].ttl = q.ttl
      [] q.q = "create_table_query" ->
            Exists(d, q.name) /\ d[q.name].src = q.source
      [] q.q = "hash" ->
            queryTableHash(d, q.name, q.hash, EvalMore(d, q.name, q.more))

\* One database call of a Do: [ok, db, sk].  sortingKey is the key read
\* earlier in the same Do.
Exec(d, call, sortingKey) ==
    LET out(r, key) == [ok |-> r.ok, db |-> r.db, sk |-> key]
    IN  CASE call.c = "drop" ->
               out(DropTableIfExists(d, call.name), sortingKey)
          [] call.c = "createTable" ->
               out(CreateTable(d, call.name, call.cols, call.key, call.part,
                               call.engine), sortingKey)
          [] call.c = "sortingKey" ->
               IF d[call.name].kind = "table"
               THEN out(Accepted(d), d[call.name].key)
               ELSE out(Rejected(d), sortingKey)
          [] call.c = "alter" ->
               out(AlterTable(d, call.name, call.mods), sortingKey)
          [] call.c = "alterKey" ->
               out(AlterTable(d, call.name,
                      addColumnsAndUpdateSortingKey(call.name, call.after,
                          call.columns, sortingKey)), <<>>)
          [] call.c = "createViewStar" ->
               out(CreateView(d, call.name, call.src, call.dst,
                      Without(SelectStar(d[call.src]), call.except)
                          \o call.extra,
                      call.needs, call.sel, call.arg), sortingKey)
          [] call.c = "createView" ->
               out(CreateView(d, call.name, call.src, call.dst, call.cols,
                      call.needs, call.sel, call.arg), sortingKey)
          [] call.c = "dictionary" ->
               out(CreateOrReplaceDictionary(d, call.name, call.cols, call.url),
                   sortingKey)

----------------------------------------------------------------------------
(* Configurations *)

\* Seconds in a day.
Day == 24 * 3600

\* The configuration of the cold-start scenario: three resolutions, 50
\* partitions.
ConfigA ==
    [res |-> <<[Interval |-> 0, TTL |-> 15 * Day],
               [Interval |-> 60, TTL |-> 7 * Day],
               [Interval |-> 3600, TTL |-> 365 * Day]>>,
     mp |-> 50, kafka |-> "Kafka SETTINGS A", url |-> "http://orchestrator-a"]

\* Another configuration: other TTLs (none for flows_1m0s), no flows_1h0m0s,
\* other Kafka settings and orchestrator URL.
ConfigB ==
    [res |-> <<[Interval |-> 0, TTL |-> 7 * Day],
               [Interval |-> 60, TTL |-> 0]>>,
     mp |-> 11, kafka |-> "Kafka SETTINGS B", url |-> "http://orchestrator-b"]

Configs == {ConfigA, ConfigB}

----------------------------------------------------------------------------
(* The ordered step list.  Each per-resolution factory is instantiated for *)
(* every configured resolution, in configured order; the other steps stand *)
(* once, at their place in the order.                                      *)

NoResolution == [Interval |-> 0, TTL |-> 0]

PerResolution(f, c) == [i \in 1..Len(c.res) |-> [f |-> f, res |-> c.res[i]]]

Global(f) == <<[f |-> f, res |-> NoResolution]>>

Steps(c) ==
    PerResolution("CreateFlowsTable", c)
    \o PerResolution("AddExporterColumns", c)
    \o Global("AddSrcNetMaskDstNetMask")
    \o Global("AddSrcNetPrefixDstNetPrefix")
    \o PerResolution("AddSrcNetNameDstNetName", c)
    \o PerResolution("AddSrcNetNameDstNetOthers", c)
    \o PerResolution("FixOrderByCountry", c)
    \o PerResolution("AddDstASPathColumns", c)
    \o Global("AddDstCommunities")
    \o Global("AddDstLargeCommunities")
    \o PerResolution("AddPacketSizeBucket", c)
    \o PerResolution("CreateFlowsConsumer", c)
    \o PerResolution("SetTTL", c)
    \o Global("CreateExportersView")
    \o Global("CreateProtocolsDictionary")
    \o Global("CreateASNsDictionary")
    \o Global("CreateNetworksDictionary")
    \o Global("CreateRawFlowsTable")
    \o Global("CreateRawFlowsConsumerView")
    \o Global("CreateRawFlowsErrorsView")

\* The migrationStep a factory builds.
StepOf(s, c) ==
    CASE s.f = "CreateFlowsTable" -> migrationsStepCreateFlowsTable(s.res, c)
      [] s.f = "AddExporterColumns" -> migrationStepAddExporterColumns(s.res)
      [] s.f = "AddSrcNetMaskDstNetMask" -> migrationStepAddSrcNetMaskDstNetMaskColumns
      [] s.f = "AddSrcNetPrefixDstNetPrefix" -> migrationStepAddSrcNetPrefixDstNetPrefixColumn
      [] s.f = "AddSrcNetNameDstNetName" -> migrationStepAddSrcNetNameDstNetNameColumns(s.res)
      [] s.f = "AddSrcNetNameDstNetOthers" -> migrationStepAddSrcNetNameDstNetOthersColumns(s.res)
      [] s.f = "FixOrderByCountry" -> migrationStepFixOrderByCountry(s.res)
      [] s.f = "AddDstASPathColumns" -> migrationStepAddDstASPathColumns(s.res)
      [] s.f = "AddDstCommunities" -> migrationStepAddDstCommunitiesColumn
      [] s.f = "AddDstLargeCommunities" -> migrationStepAddDstLargeCommunitiesColumn
      [] s.f = "AddPacketSizeBucket" -> migrationStepAddPacketSizeBucketColumn(s.res)
      [] s.f = "CreateFlowsConsumer" -> migrationsStepCreateFlowsConsumerTable(s.res)
      [] s.f = "SetTTL" -> migrationsStepSetTTLFlowsTable(s.res)
      [] s.f = "CreateExportersView" -> migrationStepCreateExportersView
      [] s.f = "CreateProtocolsDictionary" -> migrationStepCreateProtocolsDictionary(c)
      [] s.f = "CreateASNsDictionary" -> migrationStepCreateASNsDictionary(c)
      [] s.f = "CreateNetworksDictionary" -> migrationStepCreateNetworksDictionary(c)
      [] s.f = "CreateRawFlowsTable" -> migrationStepCreateRawFlowsTable(c)
      [] s.f = "CreateRawFlowsConsumerView" -> migrationStepCreateRawFlowsConsumerView
      [] s.f = "CreateRawFlowsErrorsView" -> migrationStepCreateRawFlowsErrorsView

\* The step list of every configuration and the migrationStep built at every
\* position of it.
StepLists == [c \in Configs |-> Steps(c)]

StepTable ==
    [c \in Configs |-> [i \in 1..Len(Steps(c)) |-> StepOf(Steps(c)[i], c)]]

NumSteps(c) == Len(StepLists[c])

\* Whether the CheckQuery of the step at position i is truthy on d.
Applied(d, c, i) == EvalCheck(d, StepTable[c][i].CheckQuery)

\* The database calls of the Do of the step at position i.
DoOf(c, i) == StepTable[c][i].Do

----------------------------------------------------------------------------
(* Starting states *)

EmptyDB == [n \in Objects |-> NoObject]

\* The columns every step of the library adds to flows.
AddedToFlows ==
    {"ExporterRole", "ExporterSite", "ExporterRegion", "ExporterTenant",
     "SrcNetMask", "DstNetMask", "SrcNetName", "DstNetName", "SrcNetRole",
     "DstNetRole", "SrcNetSite", "DstNetSite", "SrcNetRegion", "DstNetRegion",
     "SrcNetTenant", "DstNetTenant", "DstASPath", "Dst1stAS", "Dst2ndAS",
     "Dst3rdAS", "DstCommunities", "DstLargeCommunities"}

LegacyFlowsColumns == Without(flowsSchema, AddedToFlows)

LegacyAggregateColumns ==
    Without(LegacyFlowsColumns, {"SrcAddr", "DstAddr", "SrcPort", "DstPort"})

\* A deployment older than every step of the library: flows and flows_1m0s
\* hold rows, none of the added columns exists, the sorting key of the
\* consolidated table ends at SamplingRate.
LegacyDB ==
    [EmptyDB EXCEPT
       !["flows"] =
           [NoObject EXCEPT !.kind = "table", !.cols = LegacyFlowsColumns,
                            !.key = FlowsSortingKey, !.part = Day,
                            !.engine = "MergeTree",
                            !.data = Range(LegacyFlowsColumns)],
       !["flows_1m0s"] =
           [NoObject EXCEPT !.kind = "table", !.cols = LegacyAggregateColumns,
                            !.key = AggregatePrimaryKey, !.part = Day,
                            !.ttl = 30 * Day,
                            !.engine = "SummingMergeTree",
                            !.data = Range(LegacyAggregateColumns)],
       !["flows_1m0s_consumer"] =
           [NoObject EXCEPT !.kind = "view", !.cols = LegacyAggregateColumns,
                            !.src = "flows", !.dst = "flows_1m0s",
                            !.sel = "EXCEPT", !.arg = 60],
       !["exporters"] =
           [NoObject EXCEPT !.kind = "view",
                            !.cols = Without(ExportersColumns,
                                {"ExporterRole", "ExporterSite",
                                 "ExporterRegion", "ExporterTenant"}),
                            !.src = "flows", !.sel = "DISTINCT"],
       !["protocols"] =
           [NoObject EXCEPT !.kind = "dict", !.cols = ProtocolsColumns,
                            !.src = "http://orchestrator-a"],
       !["asns"] =
           [NoObject EXCEPT !.kind = "dict", !.cols = ASNsColumns,
                            !.src = "http://orchestrator-a"]]

\* The legacy deployment after flows_1h0m0s was dropped by hand: its consumer
\* view is left behind without a table to write to.
OrphanViewDB ==
    [LegacyDB EXCEPT
       !["flows_1h0m0s_consumer"] =
           [NoObject EXCEPT !.kind = "view", !.cols = LegacyAggregateColumns,
                            !.src = "flows", !.dst = "flows_1h0m0s",
                            !.sel = "EXCEPT", !.arg = 3600]]

----------------------------------------------------------------------------
(* A migration run *)

\* The first position whose CheckQuery is falsy on d, NumSteps + 1 if none.
FirstUnapplied(d, c) ==
    IF \A i \in 1..NumSteps(c) : Applied(d, c, i)
    THEN NumSteps(c) + 1
    ELSE CHOOSE i \in 1..NumSteps(c) :
            ~Applied(d, c, i) /\ \A j \in 1..(i - 1) : Applied(d, c, j)

\* No run has started, on an empty database.
RunIdle ==
    /\ db = EmptyDB
    /\ cfg = ConfigA
    /\ status = "idle"
    /\ pc = 0
    /\ stmt = 0
    /\ sk = <<>>
    /\ cause = "none"
    /\ doCalled = {}
    /\ k0 = 0
    /\ cold = FALSE
    /\ stable = FALSE
    /\ interrupted = FALSE

\* The computations modelled on their own have not been given an input.
PartitionIdle == ttlIn = 0 /\ mpIn = 1 /\ partOut = -1
ASPathIdle == asPath = <<>> /\ asOut = <<>>
SchemaIdle == removeIn = {} /\ schemaOut = <<>>
ColumnsIdle == afterIn = "" /\ columnsIn = <<>> /\ clausesOut = <<>>
BucketIdle == bytesIn = 0 /\ packetsIn = 1 /\ bucketOut = ""
MessageIdle == errorIn = <<>> /\ forwarded = "" /\ recorded = ""

Init ==
    /\ BucketIdle
    /\ MessageIdle
    /\ db \in {EmptyDB, LegacyDB, OrphanViewDB}
    /\ cfg = ConfigA
    /\ status = "idle"
    /\ pc = 0
    /\ stmt = 0
    /\ sk = <<>>
    /\ cause = "none"
    /\ doCalled = {}
    /\ k0 = 0
    /\ cold = FALSE
    /\ stable = FALSE
    /\ interrupted = FALSE
    /\ PartitionIdle
    /\ ASPathIdle
    /\ SchemaIdle
    /\ ColumnsIdle

\* The service starts: a run begins with the configuration c.
StartRun(c) ==
    /\ status \in {"idle", "done", "failed"}
    /\ cfg' = c
    /\ status' = "running"
    /\ pc' = 1
    /\ stmt' = 0
    /\ sk' = <<>>
    /\ cause' = "none"
    /\ doCalled' = {}
    /\ k0' = FirstUnapplied(db, c)
    /\ cold' = (db = EmptyDB)
    /\ stable' = (status = "done" /\ c = cfg)
    /\ UNCHANGED <<db, interrupted, fnVars>>

\* The runner moves past the current step; after the last one the run is done.
Advance ==
    /\ pc' = pc + 1
    /\ stmt' = 0
    /\ sk' = <<>>
    /\ status' = IF pc = NumSteps(cfg) THEN "done" ELSE "running"

\* The CheckQuery is truthy: the step is not executed.
CheckApplied ==
    /\ status = "running"
    /\ stmt = 0
    /\ Applied(db, cfg, pc)
    /\ Advance
    /\ UNCHANGED <<db, cfg, cause, doCalled, k0, cold, stable, interrupted, fnVars>>

\* The CheckQuery is falsy: Do is invoked.
CheckNotApplied ==
    /\ status = "running"
    /\ stmt = 0
    /\ ~Applied(db, cfg, pc)
    /\ stmt' = 1
    /\ doCalled' = doCalled \cup {pc}
    /\ UNCHANGED <<db, cfg, status, pc, sk, cause, k0, cold, stable, interrupted, fnVars>>

\* The next database call of the current Do succeeds.
Call ==
    /\ status = "running"
    /\ stmt >= 1
    /\ LET r == Exec(db, DoOf(cfg, pc)[stmt], sk)
       IN  /\ r.ok
           /\ db' = r.db
           /\ IF stmt = Len(DoOf(cfg, pc))
              THEN Advance
              ELSE /\ stmt' = stmt + 1
                   /\ sk' = r.sk
                   /\ UNCHANGED <<status, pc>>
    /\ UNCHANGED <<cfg, cause, doCalled, k0, cold, stable, interrupted, fnVars>>

\* The run stops with an error.
Abort(why) ==
    /\ status' = "failed"
    /\ cause' = why
    /\ pc' = 0
    /\ stmt' = 0
    /\ sk' = <<>>
    /\ doCalled' = {}
    /\ k0' = 0
    /\ cold' = FALSE
    /\ stable' = FALSE
    /\ interrupted' = (interrupted \/ stmt >= 2)
    /\ UNCHANGED <<db, cfg, fnVars>>

\* Variant: the error of the call is dropped and Do goes on with its next
\* statement.
CallRejectedIgnored ==
    /\ status = "running"
    /\ stmt >= 1
    /\ ~Exec(db, DoOf(cfg, pc)[stmt], sk).ok
    /\ IF stmt = Len(DoOf(cfg, pc))
       THEN Advance
       ELSE /\ stmt' = stmt + 1
            /\ UNCHANGED <<status, pc, sk>>
    /\ UNCHANGED <<db, cfg, cause, doCalled, k0, cold, stable, interrupted, fnVars>>

\* The database rejects the next call of the current Do: Do returns the
\* error and the run aborts.
CallRejected ==
    /\ status = "running"
    /\ stmt >= 1
    /\ ~Exec(db, DoOf(cfg, pc)[stmt], sk).ok
    /\ Abort("stmt")

\* The context is cancelled or the connection fails at the current call
\* (check or statement): the call has no effect and the run aborts.
Fault ==
    /\ status = "running"
    /\ Abort("fault")

Next ==
    \/ \E c \in Configs : StartRun(c)
    \/ CheckApplied
    \/ CheckNotApplied
    \/ Call
    \/ CallRejected
    \/ Fault

Spec == Init /\ [][Next]_vars

----------------------------------------------------------------------------
(* The partition interval computation on its own *)

SmallTTL == 12
SmallPartitions == 5

TTLInputs == 0..SmallTTL \cup {7 * Day, 15 * Day, 365 * Day}
PartitionInputs == 1..SmallPartitions \cup {50}

InitPartition ==
    /\ BucketIdle
    /\ MessageIdle
    /\ ttlIn \in TTLInputs
    /\ mpIn \in PartitionInputs
    /\ partOut = -1
    /\ RunIdle
    /\ ASPathIdle
    /\ SchemaIdle
    /\ ColumnsIdle

\* CreateFlowsTable computes the partition interval it writes.
ComputePartition ==
    /\ partOut = -1
    /\ partOut' = partitionInterval(ttlIn, mpIn)
    /\ UNCHANGED <<ttlIn, mpIn, runVars, bucketVars, messageVars, asVars, schemaVars, columnVars>>

NextPartition == ComputePartition

SpecPartition == InitPartition /\ [][NextPartition]_vars

----------------------------------------------------------------------------
(* The AS path slicing of the raw consumer view on its own *)

MaxPathLen == 4

\* AS numbers of the paths: 0 is a value too.
ASNumbers == {0, 64500, 64501}

RECURSIVE Paths(_)
Paths(n) ==
    IF n = 0 THEN {<<>>}
    ELSE Paths(n - 1) \cup
         {Append(q, a) : q \in {x \in Paths(n - 1) : Len(x) = n - 1},
                         a \in ASNumbers}

InitASPath ==
    /\ BucketIdle
    /\ MessageIdle
    /\ asPath \in Paths(MaxPathLen)
    /\ asOut = <<>>
    /\ RunIdle
    /\ PartitionIdle
    /\ SchemaIdle
    /\ ColumnsIdle

\* The raw table delivers a row: the view computes the three columns.
InsertRow ==
    /\ asOut = <<>>
    /\ asOut' = SelectDstAS(asPath)
    /\ UNCHANGED <<asPath, runVars, bucketVars, messageVars, partVars, schemaVars, columnVars>>

NextASPath == InsertRow

SpecASPath == InitASPath /\ [][NextASPath]_vars

----------------------------------------------------------------------------
(* partialSchema on its own *)

\* The names partialSchema is called with: column names of flowsSchema,
\* among them the first and the last one and a name that is a prefix of
\* another.
RemovePool ==
    {"TimeReceived", "SrcAS", "DstAS", "DstASPath", "DstNetMask",
     "DstNetName", "ForwardingStatus"}

InitSchema ==
    /\ BucketIdle
    /\ MessageIdle
    /\ removeIn \in SUBSET RemovePool
    /\ schemaOut = <<>>
    /\ RunIdle
    /\ PartitionIdle
    /\ ASPathIdle
    /\ ColumnsIdle

CallPartialSchema ==
    /\ schemaOut = <<>>
    /\ schemaOut' = partialSchemaLines(removeIn)
    /\ UNCHANGED <<removeIn, runVars, bucketVars, messageVars, partVars, asVars, columnVars>>

NextSchema == CallPartialSchema

SpecSchema == InitSchema /\ [][NextSchema]_vars

----------------------------------------------------------------------------
(* addColumnsAfter on its own *)

\* Column specs: plain ones, one with IF NOT EXISTS, and the one built by
\* sql("Src") in migrationStepAddSrcNetPrefixDstNetPrefixColumn.
SpecPool ==
    {<<"B", "T1">>, <<"C", "T2">>,
     <<"IF", "NOT", "EXISTS", "Foo", "UInt8", "DEFAULT", "0">>,
     <<"\nSrcNetPrefix", "String", "ALIAS\nCASE", "...">>}

\* The sequences of distinct elements of S, of every length.
RECURSIVE Arrangements(_)
Arrangements(S) ==
    {<<>>} \cup UNION {{<<x>> \o q : q \in Arrangements(S \ {x})} : x \in S}

\* A table with none of the columns of SpecPool.
AnchorTable ==
    [NoObject EXCEPT !.kind = "table", !.cols = <<"A", "M", "Z">>,
                     !.key = <<"A">>]

InitColumns ==
    /\ BucketIdle
    /\ MessageIdle
    /\ afterIn \in Range(AnchorTable.cols)
    /\ columnsIn \in Arrangements(SpecPool) \ {<<>>}
    /\ clausesOut = <<>>
    /\ RunIdle
    /\ PartitionIdle
    /\ ASPathIdle
    /\ SchemaIdle

CallAddColumnsAfter ==
    /\ clausesOut = <<>>
    /\ clausesOut' = addColumnsAfter(afterIn, columnsIn)
    /\ UNCHANGED <<afterIn, columnsIn, runVars, bucketVars, messageVars, partVars, asVars, schemaVars>>

NextColumns == CallAddColumnsAfter

SpecColumns == InitColumns /\ [][NextColumns]_vars

----------------------------------------------------------------------------
(* The packet size bucket on its own *)

BucketMargin == 2
MaxPackets == 2

\* Packet sizes: those around 0 and around every boundary, and a large one.
PacketSizes ==
    {size \in {b + d : b \in {0} \cup Range(boundaries),
                       d \in (0 - BucketMargin)..BucketMargin} : size >= 0}
    \cup {1000000}

InitBucket ==
    /\ packetsIn \in 1..MaxPackets
    /\ bytesIn \in {size * packetsIn + r : size \in PacketSizes,
                                           r \in 0..(packetsIn - 1)}
    /\ bucketOut = ""
    /\ RunIdle
    /\ PartitionIdle
    /\ ASPathIdle
    /\ SchemaIdle
    /\ ColumnsIdle
    /\ MessageIdle

\* A query reads PacketSizeBucket of the row.
ReadBucket ==
    /\ bucketOut = ""
    /\ bucketOut' = PacketSizeBucket(bytesIn, packetsIn)
    /\ UNCHANGED <<bytesIn, packetsIn, runVars, partVars, asVars, schemaVars,
                   columnVars, messageVars>>

NextBucket == ReadBucket

SpecBucket == InitBucket /\ [][NextBucket]_vars

----------------------------------------------------------------------------
(* A message of the raw table, seen by the two views on it *)

MaxErrorLen == 5

\* The texts of _error: every sequence of these characters up to length n.
RECURSIVE ErrorTexts(_)
ErrorTexts(n) ==
    IF n = 0 THEN {<<>>}
    ELSE ErrorTexts(n - 1) \cup
         {Append(q, a) : q \in {x \in ErrorTexts(n - 1) : Len(x) = n - 1},
                         a \in {"e", " "}}

InitMessage ==
    /\ errorIn \in ErrorTexts(MaxErrorLen)
    /\ forwarded = ""
    /\ recorded = ""
    /\ RunIdle
    /\ PartitionIdle
    /\ ASPathIdle
    /\ SchemaIdle
    /\ ColumnsIdle
    /\ BucketIdle

\* The raw consumer view sees the message.
ConsumerViewReads ==
    /\ forwarded = ""
    /\ forwarded' =
          IF Where(migrationStepCreateRawFlowsConsumerView.Do[2].sel, errorIn)
          THEN "yes" ELSE "no"
    /\ UNCHANGED <<errorIn, recorded, runVars, partVars, asVars, schemaVars,
                   columnVars, bucketVars>>

\* The raw errors view sees the message.
ErrorsViewReads ==
    /\ recorded = ""
    /\ recorded' =
          IF Where(migrationStepCreateRawFlowsErrorsView.Do[2].sel, errorIn)
          THEN "yes" ELSE "no"
    /\ UNCHANGED <<errorIn, forwarded, runVars, partVars, asVars, schemaVars,
                   columnVars, bucketVars>>

NextMessage == ConsumerViewReads \/ ErrorsViewReads

SpecMessage == InitMessage /\ [][NextMessage]_vars

----------------------------------------------------------------------------
(* Properties *)

FlowTables == {"flows"} \cup {AggregateName(i) : i \in Intervals}

InRun == status \in {"running", "done"}

\* The step at the current position.
Current == StepLists[cfg][pc]

\* This transition is the return of the current step's Do with success.
DoReturns == status = "running" /\ stmt >= 1 /\ pc' = pc + 1

\* Positions of the steps built by factory f in the current step list.
Positions(f) == {i \in 1..NumSteps(cfg) : StepLists[cfg][i].f = f}

\* C1: whenever a step's Do returns success, the step's own CheckQuery is
\* truthy on the resulting database.
C1_CheckAfterDo == [][DoReturns => Applied(db', cfg, pc)]_vars

\* C1 witness: a finished run in which the Do of FixOrderByCountry and the
\* Do of SetTTL have both run.
C1_Witness ==
    /\ status = "done"
    /\ doCalled \cap Positions("FixOrderByCountry") # {}
    /\ doCalled \cap Positions("SetTTL") # {}

\* C2: a run that begins in the state left by a successful run with the same
\* configuration invokes no Do, never changes the database, and ends with
\* every CheckQuery truthy.
C2_Rerun ==
    [][(stable' /\ status' \in {"running", "done"}) =>
          /\ doCalled' = {}
          /\ db' = db
          /\ (status' = "done" =>
                \A i \in 1..NumSteps(cfg') : Applied(db', cfg', i))]_vars

\* C2 witness: such a second run has completed.
C2_Witness == stable /\ status = "done" /\ Exists(db, "flows_1h0m0s_consumer")

\* C3: during a run every step before the current position has a truthy
\* CheckQuery (no Do makes the check of an earlier step falsy), no Do is
\* invoked before the first position that was unapplied when the run began,
\* and the Do of that position is invoked.
C3_Resume ==
    InRun =>
        /\ \A j \in 1..(pc - 1) : Applied(db, cfg, j)
        /\ \A j \in doCalled : j >= k0
        /\ (pc > k0 \/ (pc = k0 /\ stmt >= 1)) => k0 \in doCalled

\* C3 witness: a run that resumed at a SetTTL step, with every earlier step
\* already applied, has completed.
C3_Witness ==
    /\ status = "done"
    /\ k0 \in Positions("SetTTL")
    /\ \E j \in doCalled : j > k0

\* C4 (as claimed): a run that meets no fault completes, also when it follows
\* a run interrupted inside a Do: the database never rejects a statement.
C4_NoHalfApplied == ~(status = "failed" /\ cause = "stmt")

\* The objects a cold start creates for the configuration c.
ColdStartObjects(c) ==
    {"flows", "exporters", "protocols", "asns", "networks",
     RawTableName, ViewName(RawTableName), RawErrorsName}
    \cup {TableName(c.res[i]) : i \in 1..Len(c.res)}
    \cup {ViewName(TableName(c.res[i])) :
            i \in {j \in 1..Len(c.res) : c.res[j].Interval > 0}}

\* C5: after a successful run on an empty database the objects that exist
\* are exactly flows, a table and a consumer view per resolution with
\* Interval > 0, the raw table with its two views, exporters and the three
\* dictionaries; in no run is the Do of FixOrderByCountry or
\* CreateFlowsConsumer invoked for the Interval 0 resolution.
C5_ColdStart ==
    /\ (status = "done" /\ cold) =>
          {n \in Objects : Exists(db, n)} = ColdStartObjects(cfg)
    /\ InRun =>
          \A i \in doCalled :
              Steps(cfg)[i].f \in {"FixOrderByCountry", "CreateFlowsConsumer"}
                  => Steps(cfg)[i].res.Interval > 0

\* C5 witness: a cold start with three resolutions has completed.
C5_Witness == status = "done" /\ cold /\ cfg = ConfigA

\* The columns of flows after a run: flowsSchema plus the ALIAS columns.
FlowsColumns ==
    InsertAfter(InsertAfter(InsertAfter(InsertAfter(flowsSchema,
        "DstNetMask", "SrcNetPrefix"), "SrcNetPrefix", "DstNetPrefix"),
        "Packets", "PacketSize"), "PacketSize", "PacketSizeBucket")

\* The columns of a consolidated table after a run.
AggregateColumns ==
    InsertAfter(InsertAfter(AggregateSchema,
        "Packets", "PacketSize"), "PacketSize", "PacketSizeBucket")

ConfiguredPartition(c, t) ==
    LET r == CHOOSE r \in Range(c.res) : TableName(r) = t
    IN  r.TTL \div c.mp

Configured(c, t) == \E r \in Range(c.res) : TableName(r) = t

\* C8 (as claimed): after every successful run the partition interval of
\* the table of every configured resolution is floor(TTL / MaxPartitions).
C8_PartitionAfterRun ==
    status = "done" =>
        \A t \in FlowTables :
            Configured(cfg, t) => db[t].part = ConfiguredPartition(cfg, t)

\* C8 (amended): a table created by a run gets the partition interval
\* floor(TTL / MaxPartitions) of that run's configuration; a table that
\* exists keeps its partition interval.
C8_PartitionAtCreation ==
    [][\A t \in FlowTables :
          IF Exists(db, t)
          THEN db'[t].part = db[t].part
          ELSE Exists(db', t) => db'[t].part = ConfiguredPartition(cfg, t)]_vars

\* C8 witness: a run has completed that created flows_1h0m0s and found flows
\* with the partition interval of another configuration.
C8_Witness ==
    /\ status = "done"
    /\ doCalled \cap Positions("CreateFlowsTable") # {}
    /\ db["flows"].part # ConfiguredPartition(cfg, "flows")
    /\ db["flows_1h0m0s"].part = 630720

\* C9: the partition interval computed is floor(TTL in seconds /
\* MaxPartitions); with 50 partitions it is 25920 for 15 days, 12096 for 7
\* days and 630720 for 365 days.
C9_PartitionFloor ==
    partOut # -1 =>
        /\ partOut * mpIn <= ttlIn
        /\ ttlIn < (partOut + 1) * mpIn
        /\ (ttlIn = 15 * Day /\ mpIn = 50) => partOut = 25920
        /\ (ttlIn = 7 * Day /\ mpIn = 50) => partOut = 12096
        /\ (ttlIn = 365 * Day /\ mpIn = 50) => partOut = 630720

\* C9 witness: a TTL that MaxPartitions does not divide has been computed.
C9_Witness == partOut # -1 /\ ttlIn = 7 /\ mpIn = 2 /\ partOut = 3

\* C10: after a successful run the table of every resolution with TTL > 0
\* has the configured TTL, and when the runner evaluates the check of SetTTL
\* for such a resolution it invokes Do exactly when the table's TTL differs
\* from the configured one.
C10_SetTTL ==
    /\ [](status = "done" =>
            \A i \in 1..Len(cfg.res) :
                cfg.res[i].TTL > 0 =>
                    db[TableName(cfg.res[i])].ttl = cfg.res[i].TTL)
    /\ [][(/\ status = "running" /\ stmt = 0 /\ status' # "failed"
           /\ Current.f = "SetTTL" /\ Current.res.TTL > 0)
          => ((stmt' = 1) <=> (db[TableName(Current.res)].ttl # Current.res.TTL))]_vars

\* C10 witness: a run has completed in which SetTTL replaced the TTL of 30
\* days of flows_1m0s by the configured 7 days.
C10_Witness ==
    /\ status = "done"
    /\ cfg = ConfigA
    /\ db["flows_1m0s"].data # {}
    /\ db["flows_1m0s"].ttl = 7 * Day
    /\ \E i \in doCalled \cap Positions("SetTTL") : Steps(cfg)[i].res.Interval = 60

\* The TTL configured in c for the table t.
ConfiguredTTL(c, t) ==
    LET r == CHOOSE r \in Range(c.res) : TableName(r) = t
    IN  r.TTL

\* C11 (as claimed): after a successful run the table of every resolution
\* configured with TTL = 0 has no TTL.
C11_NoTTLAfterRun ==
    status = "done" =>
        \A t \in FlowTables :
            (Configured(cfg, t) /\ ConfiguredTTL(cfg, t) = 0) => db[t].ttl = 0

\* C11 (amended): in a run whose configuration gives a table the TTL 0, no
\* transition changes the TTL of the table if it exists, and the table is
\* created without a TTL if it does not.
C11_TTLZeroUntouched ==
    [][\A t \in FlowTables :
          (/\ status' \in {"running", "done"}
           /\ Configured(cfg', t) /\ ConfiguredTTL(cfg', t) = 0)
          => IF Exists(db, t)
             THEN db'[t].ttl = db[t].ttl
             ELSE Exists(db', t) => db'[t].ttl = 0]_vars

\* C11 witness: a run configured with TTL = 0 for flows_1m0s has completed
\* and the table still has its TTL of 30 days.
C11_Witness ==
    /\ status = "done"
    /\ cfg = ConfigB
    /\ doCalled # {}
    /\ db["flows_1m0s"].ttl = 30 * Day

\* C12: whenever the raw consumer view exists it reads from the raw table,
\* writes into flows, and its columns (the columns of the raw table it
\* passes through and the fourteen it computes) are the columns of
\* flowsSchema, each exactly once.
C12_RawConsumerProjection ==
    LET v == db[ViewName(RawTableName)]
        passed == Without(SelectStar(db[RawTableName]),
                          Range(largeCommunitiesColumns))
    IN  Exists(db, ViewName(RawTableName)) =>
            /\ v.src = RawTableName
            /\ v.dst = "flows"
            /\ Range(v.cols) = Range(flowsSchema)
            /\ Len(v.cols) = Cardinality(Range(v.cols))
            /\ Exists(db, RawTableName) =>
                  /\ Range(passed) = Range(flowsSchema) \ RawRemoved
                  /\ Range(passed) \cap Range(RawConsumerComputed) = {}
                  /\ Len(RawConsumerComputed) = 14

\* C12 witness: a run that created the raw table and its consumer view has
\* completed.
C12_Witness ==
    /\ status = "done"
    /\ doCalled \cap Positions("CreateRawFlowsConsumerView") # {}
    /\ Exists(db, ViewName(RawTableName))
    /\ Exists(db, RawTableName)

\* C13: after a successful run, for every configured resolution with
\* Interval > 0 the consumer view of its table reads from flows, writes into
\* the table, replaces TimeReceived by its start of interval of Interval
\* seconds, and projects the columns of flowsSchema outside its EXCEPT list,
\* which are the stored columns of the table.
C13_ConsumerView ==
    status = "done" =>
        \A i \in 1..Len(cfg.res) :
            cfg.res[i].Interval > 0 =>
                LET t == TableName(cfg.res[i])
                    v == db[ViewName(t)]
                IN  /\ v.kind = "view"
                    /\ v.src = "flows"
                    /\ v.dst = t
                    /\ v.sel = "EXCEPT REPLACE"
                    /\ v.arg = cfg.res[i].Interval
                    /\ Range(v.cols) = Range(flowsSchema) \ ConsumerExcept
                    /\ Range(v.cols) = Range(SelectStar(db[t]))

\* C13 witness: a run on the legacy database has completed after replacing
\* the consumer view of flows_1m0s and creating the one of flows_1h0m0s.
C13_Witness ==
    /\ status = "done"
    /\ cfg = ConfigA
    /\ db["flows_1m0s"].data # {}
    /\ Cardinality(doCalled \cap Positions("CreateFlowsConsumer")) = 2

\* The runner evaluates the CheckQuery of a step built by factory f and the
\* call is answered.
AtCheckOf(f) ==
    /\ status = "running" /\ stmt = 0 /\ status' # "failed"
    /\ Current.f = f

\* C14 (as claimed): when the runner reaches FixOrderByCountry for a
\* resolution with Interval > 0 whose table has SrcCountry in its sort key,
\* the Do of the step is invoked.
C14_DoWhenInSortKey ==
    [][(/\ AtCheckOf("FixOrderByCountry")
        /\ Current.res.Interval > 0
        /\ "SrcCountry" \in Range(db[TableName(Current.res)].key))
       => stmt' = 1]_vars

\* C14 (amended): for a resolution with Interval > 0 the Do of
\* FixOrderByCountry is invoked exactly when SrcCountry is not in the sort
\* key of the table; its first statement removes SrcCountry and DstCountry,
\* its last one puts them back right after DstNetTenant and appends them to
\* the sort key.  For the Interval 0 resolution the Do is never invoked and
\* the step leaves the database alone.
C14_DoWhenNotInSortKey ==
    [][/\ (AtCheckOf("FixOrderByCountry") /\ Current.res.Interval > 0)
          => ((stmt' = 1) <=>
                ("SrcCountry" \notin Range(db[TableName(Current.res)].key)))
       /\ (AtCheckOf("FixOrderByCountry") /\ Current.res.Interval = 0)
          => (stmt' = 0 /\ pc' = pc + 1 /\ db' = db)
       /\ (/\ status = "running" /\ stmt >= 1 /\ status' # "failed"
           /\ Current.f = "FixOrderByCountry")
          => LET t == TableName(Current.res)
                 i == IndexOf(db'[t].cols, "DstNetTenant")
             IN  /\ t # "flows"
                 /\ \A n \in Objects \ {t} : db'[n] = db[n]
                 /\ stmt = 1 =>
                       /\ db'[t].cols =
                            Without(db[t].cols, {"SrcCountry", "DstCountry"})
                       /\ db'[t].key = db[t].key
                 /\ pc' = pc + 1 =>
                       /\ db'[t].cols[i + 1] = "SrcCountry"
                       /\ db'[t].cols[i + 2] = "DstCountry"
                       /\ db'[t].key =
                            db[t].key \o <<"SrcCountry", "DstCountry">>]_vars

\* C14 witness: a run has completed in which the Do of FixOrderByCountry ran
\* for flows_1m0s, whose sort key had no SrcCountry, and was skipped for
\* flows_1h0m0s, created with SrcCountry in its sort key.
C14_Witness ==
    /\ status = "done"
    /\ cfg = ConfigA
    /\ \E i \in doCalled \cap Positions("FixOrderByCountry") :
          Steps(cfg)[i].res.Interval = 60
    /\ \A i \in doCalled \cap Positions("FixOrderByCountry") :
          Steps(cfg)[i].res.Interval # 3600
    /\ "SrcCountry" \in Range(db["flows_1m0s"].key)

\* Whether x stands before y in the sequence s (both in s).
Precedes(s, x, y) ==
    /\ x \in Range(s) /\ y \in Range(s)
    /\ IndexOf(s, x) < IndexOf(s, y)

\* C15 (as claimed): after a successful run the sort key of the table of
\* every configured resolution with Interval > 0 contains DstCountry, and
\* neither SrcNetName nor DstNetName stands before DstCountry in it.
C15_CountryBeforeNetName ==
    status = "done" =>
        \A i \in 1..Len(cfg.res) :
            cfg.res[i].Interval > 0 =>
                LET key == db[TableName(cfg.res[i])].key
                IN  /\ "DstCountry" \in Range(key)
                    /\ ~Precedes(key, "SrcNetName", "DstCountry")
                    /\ ~Precedes(key, "DstNetName", "DstCountry")

\* C15 (amended): after a successful run the sort key of the table of every
\* configured resolution with Interval > 0 is the sort key of CreateFlowsTable:
\* it contains SrcCountry and DstCountry right after DstNetTenant, the last
\* of the ten network columns, which all stand before them.
C15_CountryAfterNetName ==
    status = "done" =>
        \A i \in 1..Len(cfg.res) :
            cfg.res[i].Interval > 0 =>
                LET key == db[TableName(cfg.res[i])].key
                    j == IndexOf(key, "DstNetTenant")
                IN  /\ key = AggregateSortingKey
                    /\ key[j + 1] = "SrcCountry"
                    /\ key[j + 2] = "DstCountry"
                    /\ \A n \in {"SrcNetName", "DstNetName", "SrcNetRole",
                                  "DstNetRole", "SrcNetSite", "DstNetSite",
                                  "SrcNetRegion", "DstNetRegion",
                                  "SrcNetTenant", "DstNetTenant"} :
                          Precedes(key, n, "DstCountry")

\* C15 witness: a run has completed that extended the sort key of the legacy
\* flows_1m0s and created flows_1h0m0s.
C15_Witness ==
    /\ status = "done"
    /\ cfg = ConfigA
    /\ db["flows_1m0s"].data # {}
    /\ db["flows_1m0s"].key = db["flows_1h0m0s"].key
    /\ Len(db["flows_1m0s"].key) = 25

\* The positions of asPath that start a run of equal elements.
RunStarts == {i \in 1..Len(asPath) : i = 1 \/ asPath[i] # asPath[i - 1]}

\* The element that starts the k-th run of asPath, 0 if there are fewer runs.
RunValue(k) ==
    IF Cardinality(RunStarts) >= k
    THEN asPath[CHOOSE i \in RunStarts :
                    Cardinality({j \in RunStarts : j < i}) = k - 1]
    ELSE 0

\* C16: the view sets Dst1stAS, Dst2ndAS and Dst3rdAS to the elements that
\* start the 1st, 2nd and 3rd run of adjacent equal elements of DstASPath,
\* and to 0 where the path has fewer runs; [64500, 64500, 64501] gives
\* 64500, 64501, 0 and the non-adjacent repeat of [64500, 64501, 64500] is
\* kept.
C16_DstASFromPath ==
    asOut # <<>> =>
        /\ asOut = <<RunValue(1), RunValue(2), RunValue(3)>>
        /\ asPath = <<64500, 64500, 64501>> => asOut = <<64500, 64501, 0>>
        /\ asPath = <<64500, 64501, 64500>> => asOut = <<64500, 64501, 64500>>

\* C16 witness: the row with the path [64500, 64500, 64501] was written.
C16_Witness == asPath = <<64500, 64500, 64501>> /\ asOut = <<64500, 64501, 0>>

\* The line of flowsSchema that declares the column name.
LineOf(name) ==
    CHOOSE l \in Range(flowsSchemaLines) : FirstToken(l) = Chars(name)

\* C17: partialSchema returns the lines of flowsSchema, in their order,
\* without exactly the lines whose first token is a name of the argument;
\* the line of DstASPath stays when only DstAS is removed, and the line of
\* DstNetName when only DstNetMask is.
C17_PartialSchema ==
    schemaOut # <<>> =>
        /\ schemaOut =
              SelectSeq(flowsSchemaLines,
                  LAMBDA l : \A x \in removeIn : FirstToken(l) # Chars(x))
        /\ \A x \in RemovePool :
              (LineOf(x) \in Range(schemaOut)) <=> (x \notin removeIn)
        /\ Len(schemaOut) = Len(flowsSchemaLines) - Cardinality(removeIn)

\* C17 witness: partialSchema("DstAS", "DstNetMask") has returned, with the
\* lines of DstASPath and DstNetName.
C17_Witness ==
    /\ removeIn = {"DstAS", "DstNetMask"}
    /\ schemaOut # <<>>
    /\ LineOf("DstASPath") \in Range(schemaOut)
    /\ LineOf("DstNetName") \in Range(schemaOut)

\* The column a spec of SpecPool declares.
DeclaredColumn(spec) ==
    CASE spec[1] = "B" -> "B"
      [] spec[1] = "C" -> "C"
      [] spec[1] = "IF" -> "Foo"
      [] OTHER -> "SrcNetPrefix"

\* C18: addColumnsAfter returns one ADD COLUMN clause per spec, in argument
\* order, the first anchored after the given column and each later one
\* after the column declared by the previous spec (for an IF NOT EXISTS
\* spec, the token after these words); the database accepts the clauses and
\* puts the new columns right after the anchor, in argument order.
\* addColumnsAfter("A", "B T1", "C T2") anchors B after A and C after B.
C18_AddColumnsAfter ==
    clausesOut # <<>> =>
        LET n == Len(columnsIn)
            r == ApplyClauses([ok |-> TRUE, o |-> AnchorTable, added |-> {}],
                              clausesOut)
            a == IndexOf(AnchorTable.cols, afterIn)
        IN  /\ Len(clausesOut) = n
            /\ \A i \in 1..n :
                  /\ clausesOut[i].op = "ADD"
                  /\ clausesOut[i].spec = columnsIn[i]
                  /\ SqlIdent(clausesOut[i].after) =
                        (IF i = 1 THEN afterIn
                         ELSE DeclaredColumn(columnsIn[i - 1]))
            /\ r.ok
            /\ r.o.cols =
                  SubSeq(AnchorTable.cols, 1, a)
                  \o [i \in 1..n |-> DeclaredColumn(columnsIn[i])]
                  \o SubSeq(AnchorTable.cols, a + 1, Len(AnchorTable.cols))
            /\ (afterIn = "A" /\ columnsIn = <<<<"B", "T1">>, <<"C", "T2">>>>)
                  => clausesOut =
                       <<[op |-> "ADD", spec |-> <<"B", "T1">>, after |-> "A"],
                         [op |-> "ADD", spec |-> <<"C", "T2">>, after |-> "B"]>>

\* C18 witness: addColumnsAfter has returned for a list in which a spec
\* follows an IF NOT EXISTS spec.
C18_Witness ==
    /\ Len(clausesOut) = 3
    /\ columnsIn[1][1] = "B"
    /\ columnsIn[2][1] = "IF"
    /\ clausesOut[3].after = "Foo"

\* The steps of C19, which add columns to flows with
\* addColumnsAndUpdateSortingKey.
FlowsKeySteps ==
    {"AddSrcNetMaskDstNetMask", "AddDstASPathColumns", "AddDstCommunities",
     "AddDstLargeCommunities"}

\* This transition is the successful return of the Do of one of these steps
\* run on flows.
FlowsKeyStepReturns ==
    /\ DoReturns
    /\ Current.f \in FlowsKeySteps
    /\ TableName(Current.res) = "flows"

\* The columns this transition adds to flows, in the order of the table.
AddedToFlowsNow ==
    SelectSeq(db'["flows"].cols, LAMBDA n : n \notin Range(db["flows"].cols))

\* C19 (as claimed): when the Do of one of these steps returns on flows, the
\* sort key of flows is the previous one followed by the added columns.
C19_FlowsKeyExtended ==
    [][FlowsKeyStepReturns =>
          db'["flows"].key = db["flows"].key \o AddedToFlowsNow]_vars

\* C19 (amended): when the Do of one of these steps returns on flows, it has
\* added its columns and the sort key of flows is unchanged; the sort key
\* of flows is the one of its creation in every state.
C19_FlowsKeyUnchanged ==
    /\ [][FlowsKeyStepReturns =>
             /\ AddedToFlowsNow # <<>>
             /\ db'["flows"].key = db["flows"].key
             /\ Range(AddedToFlowsNow) \cap Range(db'["flows"].key) = {}]_vars
    /\ [](Exists(db, "flows") => db["flows"].key = FlowsSortingKey)

\* C19 witness: a run on the legacy database has completed after the Do of
\* each of the four steps ran on flows.
C19_Witness ==
    /\ status = "done"
    /\ \A f \in FlowsKeySteps :
          \E i \in doCalled \cap Positions(f) : Steps(cfg)[i].res.Interval = 0
    /\ db["flows"].key = FlowsSortingKey
    /\ "DstLargeCommunities" \in Range(db["flows"].cols)

\* The consolidated tables.
AggregateTables == {AggregateName(i) : i \in Intervals}

\* C20: no transition removes or reorders columns of the sort key of a
\* consolidated table: the previous sort key is a prefix of the new one; and
\* no statement of AddExporterColumns or AddPacketSizeBucket changes a sort
\* key.
C20_SortKeyAppendOnly ==
    [][/\ \A t \in AggregateTables :
             Exists(db, t) => IsPrefix(db[t].key, db'[t].key)
       /\ (/\ status = "running" /\ stmt >= 1
           /\ Current.f \in {"AddExporterColumns", "AddPacketSizeBucket"})
          => \A t \in Objects : db'[t].key = db[t].key]_vars

\* C20 witness: a run has completed in which the sort key of flows_1m0s grew
\* from the primary key to the full sort key and the Do of
\* AddExporterColumns and of AddPacketSizeBucket ran on the table.
C20_Witness ==
    /\ status = "done"
    /\ db["flows_1m0s"].data # {}
    /\ db["flows_1m0s"].key = AggregateSortingKey
    /\ \A f \in {"AddExporterColumns", "AddPacketSizeBucket", "FixOrderByCountry"} :
          \E i \in doCalled \cap Positions(f) : Steps(cfg)[i].res.Interval = 60

\* The next database call of the current Do.
NextCall == DoOf(cfg, pc)[stmt]

\* C21: a call of a Do that the database rejects makes the run fail at once;
\* the transition on which a run fails changes nothing in the database (a
\* failed sort-key query leaves its table as it was) and leaves the step
\* list; after a failure the database stays as it is until a new run starts
\* at the first step.
C21_FailureStops ==
    [][/\ (status = "running" /\ stmt >= 1 /\ ~Exec(db, NextCall, sk).ok)
          => status' = "failed"
       /\ (status = "running" /\ status' = "failed")
          => (db' = db /\ pc' = 0 /\ stmt' = 0 /\ cause' # "none")
       /\ (status = "running" /\ stmt >= 1 /\ NextCall.c = "sortingKey"
           /\ stmt' # stmt + 1)
          => (status' = "failed" /\ db'[NextCall.name] = db[NextCall.name])
       /\ status = "failed"
          => (db' = db /\ status' = "running" /\ pc' = 1 /\ stmt' = 0)]_vars

\* C21 witness: a run has failed on a statement the database rejected, the
\* second ALTER of that Do was not issued (the country columns are still
\* missing) and flows_1m0s has no consumer view yet from the later steps.
C21_Witness ==
    /\ status = "failed"
    /\ cause = "stmt"
    /\ "SrcCountry" \notin Range(db["flows_1m0s"].cols)
    /\ db["flows_1m0s_consumer"].sel # "EXCEPT REPLACE"

\* The boundaries of the buckets as the specification lists them.
BucketList ==
    <<0, 64, 128, 256, 512, 768, 1024, 1280, 1501, 2048, 3072, 4096, 8192,
      10240, 16384, 32768, 65536>>

\* The buckets the packet size p lies in: i for BucketList[i] <= p <
\* BucketList[i + 1], Len(BucketList) for p >= 65536.
BucketsOf(p) ==
    {i \in 1..(Len(BucketList) - 1) :
        BucketList[i] <= p /\ p < BucketList[i + 1]}
    \cup (IF p >= 65536 THEN {Len(BucketList)} ELSE {})

\* C22: PacketSizeBucket of a row is the label "lo-(hi-1)" exactly when
\* lo <= PacketSize < hi for consecutive boundaries lo, hi of the list, and
\* "65536-Inf" exactly when PacketSize >= 65536; every packet size lies in
\* exactly one bucket.
C22_Buckets ==
    bucketOut # "" =>
        LET p == bytesIn \div packetsIn IN
        /\ \A i \in 1..(Len(BucketList) - 1) :
              (bucketOut = ToString(BucketList[i]) \o "-"
                           \o ToString(BucketList[i + 1] - 1))
              <=> (BucketList[i] <= p /\ p < BucketList[i + 1])
        /\ (bucketOut = "65536-Inf") <=> (p >= 65536)
        /\ Cardinality(BucketsOf(p)) = 1

\* C22 witness: a row of two packets with a packet size of 1500, the last
\* size of the bucket below the boundary 1501.
C22_Witness ==
    /\ packetsIn = 2
    /\ bytesIn = 3001
    /\ bucketOut = "1280-1500"

\* The position of the step built by factory f for resolution r in the
\* current step list.
PosOf(f, r) ==
    CHOOSE i \in 1..NumSteps(cfg) : StepLists[cfg][i] = [f |-> f, res |-> r]

\* The consumer views a Do of another step drops: the position of the step
\* that drops the view, the position of the step that creates it, its name.
DroppedViews ==
    {[by |-> PosOf("CreateFlowsTable", cfg.res[i]),
      again |-> PosOf("CreateFlowsConsumer", cfg.res[i]),
      view |-> ViewName(TableName(cfg.res[i]))] :
        i \in {j \in 1..Len(cfg.res) : cfg.res[j].Interval > 0}}
    \cup {[by |-> PosOf("CreateRawFlowsTable", NoResolution),
           again |-> PosOf("CreateRawFlowsConsumerView", NoResolution),
           view |-> ViewName(RawTableName)]}

\* The Do at position i has issued its first statement in this run.
FirstStatementDone(i) == i \in doCalled /\ (pc > i \/ stmt >= 2)

\* C23: once the Do of CreateFlowsTable (Interval > 0) or of
\* CreateRawFlowsTable has issued its DROP of the consumer view, the view is
\* absent and the check of the step that creates it is falsy until that step
\* is reached, and past that step its Do has been invoked and the view
\* exists; after a successful run every consumer view exists and reads from
\* and writes to existing tables; no statement of either Do changes flows
\* when it exists.
C23_ViewsComeBack ==
    /\ [](InRun =>
            /\ \A v \in DroppedViews :
                  /\ (FirstStatementDone(v.by) /\ pc <= v.again
                      /\ ~FirstStatementDone(v.again))
                     => (~Exists(db, v.view) /\ ~Applied(db, cfg, v.again))
                  /\ (FirstStatementDone(v.by) /\ pc > v.again)
                     => (v.again \in doCalled /\ db[v.view].kind = "view")
            /\ status = "done" =>
                  \A v \in DroppedViews :
                      /\ db[v.view].kind = "view"
                      /\ db[db[v.view].src].kind = "table"
                      /\ db[db[v.view].dst].kind = "table")
    /\ [][(/\ status = "running"
           /\ stmt >= 1
           /\ Current.f \in {"CreateFlowsTable", "CreateRawFlowsTable"}
           /\ Exists(db, "flows"))
          => db'["flows"] = db["flows"]]_vars

\* C23 witness: a run with other Kafka settings has completed; it dropped
\* and re-created the raw table, then re-created the raw consumer view, and
\* left the errors view of the earlier run as it was.
C23_Witness ==
    /\ status = "done"
    /\ cfg = ConfigB
    /\ PosOf("CreateRawFlowsTable", NoResolution) \in doCalled
    /\ PosOf("CreateRawFlowsConsumerView", NoResolution) \in doCalled
    /\ PosOf("CreateRawFlowsErrorsView", NoResolution) \notin doCalled

\* The configured resolutions with Interval > 0.
AggregateResolutions == {r \in Range(cfg.res) : r.Interval > 0}

\* The CREATE TABLE statement of CreateFlowsTable for the resolution r.
CreatedBy(r) == migrationsStepCreateFlowsTable(r, cfg).Do[2]

\* C24: after a successful run the table of every configured resolution
\* with Interval > 0, upgraded from the legacy layout or created in that
\* run, has the stored columns, in order, and the sort key of the CREATE
\* TABLE statement of CreateFlowsTable, and any two such tables have the
\* same column list and the same sort key.
C24_UpgradeConverges ==
    status = "done" =>
        /\ \A r \in AggregateResolutions :
              /\ SelectStar(db[TableName(r)]) = CreatedBy(r).cols
              /\ db[TableName(r)].key = CreatedBy(r).key
        /\ \A r1, r2 \in AggregateResolutions :
              /\ db[TableName(r1)].cols = db[TableName(r2)].cols
              /\ db[TableName(r1)].key = db[TableName(r2)].key

\* C24 witness: one run has upgraded the legacy flows_1m0s, which still
\* holds its rows, from its first added columns on and has created
\* flows_1h0m0s.
C24_Witness ==
    /\ status = "done"
    /\ cfg = ConfigA
    /\ db["flows_1m0s"].data # {}
    /\ PosOf("AddExporterColumns", ConfigA.res[2]) \in doCalled
    /\ PosOf("FixOrderByCountry", ConfigA.res[2]) \in doCalled
    /\ PosOf("CreateFlowsTable", ConfigA.res[3]) \in doCalled

\* Every column a clause of an ALTER TABLE refers to exists when the clause
\* is reached, present being the columns of the table at that point: the
\* anchor of ADD COLUMN ... AFTER, the column of DROP COLUMN, the columns of
\* MODIFY ORDER BY, and TimeReceived for MODIFY TTL.
RECURSIVE ClausesReferToExisting(_, _)
ClausesReferToExisting(present, mods) ==
    IF mods = <<>> THEN TRUE
    ELSE LET m == Head(mods)
             rest == Tail(mods)
         IN  CASE m.op = "ADD" ->
                    /\ SqlIdent(m.after) \in present
                    /\ ClausesReferToExisting(
                           present \cup {ClauseColumn(m.spec)}, rest)
               [] m.op = "DROP" ->
                    /\ m.col \in present
                    /\ ClausesReferToExisting(present \ {m.col}, rest)
               [] m.op = "ORDER" ->
                    /\ \A i \in 1..Len(m.key) : SqlIdent(m.key[i]) \in present
                    /\ ClausesReferToExisting(present, rest)
               [] m.op = "TTL" ->
                    /\ "TimeReceived" \in present
                    /\ ClausesReferToExisting(present, rest)

\* Every object the database call refers to exists in d.
RefersToExisting(d, call, sortingKey) ==
    CASE call.c \in {"drop", "createTable", "dictionary"} -> TRUE
      [] call.c = "sortingKey" -> d[call.name].kind = "table"
      [] call.c = "alter" ->
           /\ d[call.name].kind = "table"
           /\ ClausesReferToExisting(Range(d[call.name].cols), call.mods)
      [] call.c = "alterKey" ->
           /\ d[call.name].kind = "table"
           /\ ClausesReferToExisting(Range(d[call.name].cols),
                  addColumnsAndUpdateSortingKey(call.name, call.after,
                      call.columns, sortingKey))
      [] call.c = "createViewStar" ->
           /\ d[call.src].kind = "table"
           /\ d[call.dst].kind = "table"
           /\ call.needs \subseteq Range(d[call.src].cols)
           /\ call.except \subseteq Range(d[call.src].cols)
      [] call.c = "createView" ->
           /\ d[call.src].kind = "table"
           /\ call.dst # "" => d[call.dst].kind = "table"
           /\ call.needs \subseteq Range(d[call.src].cols)

\* C25: in the runs of a history in which no run has stopped inside a Do
\* after one of its statements (started on an empty database, on the legacy
\* database, or on what whole steps made of them), whenever a Do is about to
\* issue a database call every object the call refers to exists, and the
\* networks dictionary exists when the raw consumer view is created.
C25_RefersToExisting ==
    (status = "running" /\ stmt >= 1 /\ ~interrupted) =>
        /\ RefersToExisting(db, NextCall, sk)
        /\ Current.f = "CreateRawFlowsConsumerView" => db["networks"].kind = "dict"

\* C25 witness: in such a history the Do of FixOrderByCountry is about to
\* drop the country columns of the legacy flows_1m0s.
C25_Witness ==
    /\ status = "running"
    /\ ~interrupted
    /\ Current.f = "FixOrderByCountry"
    /\ stmt = 1
    /\ NextCall.mods[1].op = "DROP"
    /\ db[NextCall.name].data # {}

\* C26: the raw consumer view forwards a message exactly when its _error is
\* empty, the raw errors view records it exactly when its _error is not
\* empty, and once both views have seen it exactly one of them has taken it.
C26_ExactlyOneView ==
    /\ forwarded # "" => ((forwarded = "yes") <=> (errorIn = <<>>))
    /\ recorded # "" => ((recorded = "yes") <=> (errorIn # <<>>))
    /\ (forwarded # "" /\ recorded # "")
       => (forwarded = "yes") # (recorded = "yes")

\* C26 witness: a message with an empty _error has been seen by both views;
\* the consumer view forwarded it and the errors view left it.
C26_Witness ==
    /\ errorIn = <<>>
    /\ forwarded = "yes"
    /\ recorded = "no"

====
